---- MODULE Spec2Model ----
(***************************************************************************)
(* Model of the blog's in-memory entity store (MemStorage, storage.ts)     *)
(* of the HTTP handlers that drive it (registerRoutes), and of the home    *)
(* page that lists, filters, sorts and searches posts (HomePage).          *)
(*                                                                         *)
(* A JavaScript object is a function from its own keys to their values, so *)
(* that an omitted key and object spread ({...a, ...b}) are modelled as    *)
(* the code computes them.  A Map is the sequence of its entries in        *)
(* insertion order.                                                        *)
(***************************************************************************)
EXTENDS Integers, Sequences, FiniteSets, TLC

VARIABLES
  users,             \* MemStorage.users: Map<number, User>
  posts,             \* MemStorage.posts: Map<number, Post>
  comments,          \* MemStorage.comments: Map<number, Comment>
  currentUserId,     \* MemStorage.currentUserId
  currentPostId,     \* MemStorage.currentPostId
  currentCommentId,  \* MemStorage.currentCommentId
  clock,             \* the time `new Date()` reads
  inflight,          \* posts returned by createPost calls not yet awaited
  last,              \* the last call or request answered, and its answer
  log,               \* the mutating post calls made directly on the store
  internalPosts,     \* HomePage: data of the ['/api/posts'] query
  externalPosts,     \* HomePage: data of the external-posts query
  searchQuery,       \* HomePage state searchQuery
  selectedCategory,  \* HomePage state selectedCategory
  sortBy,            \* HomePage state sortBy
  filteredPosts,     \* HomePage state filteredPosts: the posts displayed
  searches,          \* handleSearch calls awaiting searchExternalPosts
  searchCalls        \* how many handleSearch calls were made so far

homeVars == <<internalPosts, externalPosts, searchQuery, selectedCategory,
              sortBy, filteredPosts, searches, searchCalls>>

vars == <<users, posts, comments, currentUserId, currentPostId,
          currentCommentId, clock, inflight, last, log, homeVars>>

storeVars == <<users, posts, comments, currentUserId, currentPostId,
               currentCommentId>>

----------------------------------------------------------------------------
(* Bounds of the model. *)

MaxUsers == 3
MaxPosts == 2
MaxComments == 1
MaxRegistered == 2
MaxRoutePosts == 1
MaxClock == 1
MaxOps == 3

----------------------------------------------------------------------------
(* JavaScript values. *)

\* The value `undefined`, as returned by Map.get on a missing key.
Undefined == [undefined |-> TRUE]

\* Object spread {...a, ...b}: the keys of both, b's value winning.
Spread(a, b) ==
  [k \in (DOMAIN a) \cup (DOMAIN b) |-> IF k \in DOMAIN b THEN b[k] ELSE a[k]]

\* Map.has / Map.get / Map.set / Map.delete / Map.values on a Map kept as
\* the sequence of its entries [k, v] in insertion order.
MapHas(m, key) == \E i \in 1..Len(m) : m[i].k = key

MapGet(m, key) ==
  IF MapHas(m, key)
  THEN m[CHOOSE i \in 1..Len(m) : m[i].k = key].v
  ELSE Undefined

MapSet(m, key, value) ==
  IF MapHas(m, key)
  THEN [i \in 1..Len(m) |->
          IF m[i].k = key THEN [k |-> key, v |-> value] ELSE m[i]]
  ELSE Append(m, [k |-> key, v |-> value])

MapDelete(m, key) == SelectSeq(m, LAMBDA e : e.k # key)

MapValues(m) == [i \in 1..Len(m) |-> m[i].v]

\* The category 'all' (a string is the sequence of its characters where
\* its characters matter).
All == <<"a", "l", "l">>

\* HomePage when it mounts: the useState initial values, and [] for the
\* data of both queries until they answer.
HomeMount ==
  /\ internalPosts = <<>>
  /\ externalPosts = <<>>
  /\ searchQuery = <<>>
  /\ selectedCategory = All
  /\ sortBy = "latest"
  /\ filteredPosts = <<>>
  /\ searches = {}
  /\ searchCalls = 0

----------------------------------------------------------------------------
(* The state after `new MemStorage()`, with the page just mounted. *)

AdminUser ==
  [id |-> 1, username |-> "admin", password |-> "admin",
   fullName |-> "Admin User", isAdmin |-> TRUE]

NoCall == [op |-> "none", arg |-> 0, ret |-> Undefined]

Init ==
  /\ users = <<[k |-> 1, v |-> AdminUser]>>
  /\ posts = <<>>
  /\ comments = <<>>
  /\ currentUserId = 2
  /\ currentPostId = 1
  /\ currentCommentId = 1
  /\ clock = 0
  /\ inflight = {}
  /\ last = NoCall
  /\ log = <<>>
  /\ HomeMount

\* Time passes between calls: `new Date()` reads a clock that never runs
\* backwards.
Tick ==
  /\ clock < MaxClock
  /\ clock' = clock + 1
  /\ UNCHANGED <<storeVars, inflight, last, log, homeVars>>

----------------------------------------------------------------------------
(* User methods. *)

\* Inputs of createUser: a fresh name, the seeded admin's name, and an input
\* that carries an isAdmin key of its own.
UserInputs ==
  { [username |-> "bob", password |-> "pw"],
    [username |-> "admin", password |-> "pw"],
    [username |-> "eve", password |-> "pw", isAdmin |-> TRUE],
    [username |-> "carol", password |-> "pw", fullName |-> "Carol"] }

Usernames == {"admin", "bob", "eve", "carol", "nobody"}

\* Mutant: the input spread last, { id, isAdmin: false, ...insertUser }.
CreateUserRecord_InputWins(insertUser, id) ==
  Spread([id |-> id, isAdmin |-> FALSE], insertUser)

\* const user = { ...insertUser, id, isAdmin: false }
CreateUserRecord(insertUser, id) ==
  Spread(insertUser, [id |-> id, isAdmin |-> FALSE])

\* The body of createUser: its effect on the store.
createUser(insertUser) ==
  /\ currentUserId' = currentUserId + 1
  /\ users' = MapSet(users, currentUserId,
                     CreateUserRecord(insertUser, currentUserId))
  /\ UNCHANGED <<posts, comments, currentPostId, currentCommentId>>

CallCreateUser(insertUser) ==
  /\ currentUserId <= MaxUsers
  /\ createUser(insertUser)
  /\ last' = [op |-> "createUser", arg |-> currentUserId,
              ret |-> CreateUserRecord(insertUser, currentUserId)]
  /\ UNCHANGED <<clock, inflight, log, homeVars>>

getUser(id) ==
  /\ last' = [op |-> "getUser", arg |-> id, ret |-> MapGet(users, id)]
  /\ UNCHANGED <<storeVars, clock, inflight, log, homeVars>>

\* Array.from(this.users.values()).find(user => user.username === username)
FindByUsername(m, username) ==
  IF \E i \in 1..Len(m) : m[i].v["username"] = username
  THEN LET first == CHOOSE i \in 1..Len(m) :
                      /\ m[i].v["username"] = username
                      /\ \A j \in 1..(i - 1) : m[j].v["username"] # username
       IN m[first].v
  ELSE Undefined

getUserByUsername(username) ==
  /\ last' = [op |-> "getUserByUsername", arg |-> 0,
              ret |-> FindByUsername(users, username)]
  /\ UNCHANGED <<storeVars, clock, inflight, log, homeVars>>

getAllUsers ==
  /\ last' = [op |-> "getAllUsers", arg |-> 0,
              ret |-> [list |-> MapValues(users)]]
  /\ UNCHANGED <<storeVars, clock, inflight, log, homeVars>>

NextUsers ==
  \/ \E insertUser \in UserInputs : CallCreateUser(insertUser)
  \/ \E id \in 1..MaxUsers : getUser(id)
  \/ \E username \in Usernames : getUserByUsername(username)
  \/ getAllUsers

SpecUsers == Init /\ [][NextUsers]_vars

\* C5: createUser with the username of an already stored user fails and
\* leaves the store unchanged, so no two stored users share a username.
C5_UsernamesUnique ==
  \A i, j \in 1..Len(users) :
    i # j => users[i].v["username"] # users[j].v["username"]

\* C6: createUser gives each new user the next sequential id (the first
\* created user gets id 2) and stores isAdmin = false whatever the input
\* carries: the seeded user 1 is the only user with isAdmin = true.
C6_SequentialIdsAndOnlySeededAdmin ==
  /\ \A i \in 1..Len(users) :
       /\ users[i].k = i
       /\ users[i].v["id"] = i
       /\ users[i].v["isAdmin"] <=> (i = 1)
  /\ currentUserId = Len(users) + 1
  /\ last.op = "createUser" =>
       /\ last.arg = Len(users)
       /\ last.ret = MapGet(users, last.arg)

\* C6 witness: the first created user, made from an input that carries
\* isAdmin = true, is stored under id 2.
C6_Witness ==
  /\ Len(users) >= 2
  /\ users[2].v["username"] = "eve"
  /\ last.op = "createUser" /\ last.arg = 2

----------------------------------------------------------------------------
(* Post methods. *)

\* Inputs of createPost (InsertPost objects); the second gives the optional
\* published key.
PostInputs ==
  { [title |-> "a", content |-> "x", authorId |-> 1],
    [title |-> "b", content |-> "y", authorId |-> 2, published |-> FALSE] }

\* Partial objects handed to updatePost.  At run time nothing keeps a
\* caller from passing an object that carries an id or a createdAt key.
PostUpdates ==
  { [title |-> "c"],
    [title |-> "d", published |-> TRUE],
    [id |-> 7, createdAt |-> 9] }

PostIds == 1..MaxPosts

\* Mutant: the counter is read but not advanced.
PostIdIncrement_NoAdvance(cur) == [id |-> cur, next |-> cur]

\* const id = this.currentPostId++ : the id taken and the counter left.
PostIdIncrement(cur) == [id |-> cur, next |-> cur + 1]

\* const post = { ...insertPost, id, createdAt: now }
CreatePostRecord(insertPost, id, now) ==
  Spread(insertPost, [id |-> id, createdAt |-> now])

\* The body of createPost: its effect on the store.
createPost(insertPost) ==
  LET inc == PostIdIncrement(currentPostId)
  IN /\ currentPostId' = inc.next
     /\ posts' = MapSet(posts, inc.id,
                        CreatePostRecord(insertPost, inc.id, clock))
     /\ UNCHANGED <<users, comments, currentUserId, currentCommentId>>

\* The post createPost returns.
createPostResult(insertPost) ==
  CreatePostRecord(insertPost, PostIdIncrement(currentPostId).id, clock)

\* getPost: this.posts.get(id)
getPost(id) == MapGet(posts, id)

\* Mutant: the spread the other way round, { ...postUpdate, ...post }.
UpdatePostRecord_Reversed(post, postUpdate) == Spread(postUpdate, post)

\* const updatedPost = { ...post, ...postUpdate }
UpdatePostRecord(post, postUpdate) == Spread(post, postUpdate)

\* The body of updatePost: an unknown id changes nothing.
updatePost(id, postUpdate) ==
  /\ posts' = IF MapHas(posts, id)
              THEN MapSet(posts, id,
                          UpdatePostRecord(MapGet(posts, id), postUpdate))
              ELSE posts
  /\ UNCHANGED <<users, comments, currentUserId, currentPostId,
                 currentCommentId>>

updatePostResult(id, postUpdate) ==
  IF MapHas(posts, id)
  THEN UpdatePostRecord(MapGet(posts, id), postUpdate)
  ELSE Undefined

\* Mutant: deletePost takes the comments of the post with it.
deletePost_WithComments(id) ==
  /\ posts' = MapDelete(posts, id)
  /\ comments' = SelectSeq(comments, LAMBDA entry :
                   IF "postId" \in DOMAIN entry.v
                   THEN entry.v["postId"] # id ELSE TRUE)
  /\ UNCHANGED <<users, currentUserId, currentPostId, currentCommentId>>

\* The body of deletePost: this.posts.delete(id), true when the key existed.
deletePost(id) ==
  /\ posts' = MapDelete(posts, id)
  /\ UNCHANGED <<users, comments, currentUserId, currentPostId,
                 currentCommentId>>

\* Mutant: deletePost answers true whatever the key.
deletePostResult_AlwaysTrue(id) == TRUE

deletePostResult(id) == MapHas(posts, id)

\* getAllPosts: Array.from(this.posts.values())
getAllPosts == MapValues(posts)

(* Direct calls of the post methods.  log records the mutating calls made, *)
(* in the order their bodies ran, each with what it returned.  A           *)
(* createPost call runs its whole body when called (the body holds no      *)
(* await) and its promise is consumed later: inflight holds the posts      *)
(* returned by calls not yet awaited.  getPost and getAllPosts change      *)
(* nothing: they are the operators above, read in every state.             *)

CallCreatePost(insertPost) ==
  /\ currentPostId <= MaxPosts
  /\ Len(log) < MaxOps
  /\ createPost(insertPost)
  /\ inflight' = inflight \cup {createPostResult(insertPost)}
  /\ log' = Append(log, [op |-> "createPost",
                         id |-> PostIdIncrement(currentPostId).id,
                         arg |-> insertPost, at |-> clock])
  /\ UNCHANGED <<clock, last, homeVars>>

AwaitCreatePost(post) ==
  /\ post \in inflight
  /\ inflight' = inflight \ {post}
  /\ UNCHANGED <<storeVars, clock, last, log, homeVars>>

CallUpdatePost(id, postUpdate) ==
  /\ Len(log) < MaxOps
  /\ updatePost(id, postUpdate)
  /\ log' = Append(log, [op |-> "updatePost", id |-> id, arg |-> postUpdate,
                         ret |-> updatePostResult(id, postUpdate)])
  /\ UNCHANGED <<clock, inflight, last, homeVars>>

CallDeletePost(id) ==
  /\ Len(log) < MaxOps
  /\ deletePost(id)
  /\ log' = Append(log, [op |-> "deletePost", id |-> id,
                         ret |-> deletePostResult(id)])
  /\ UNCHANGED <<clock, inflight, last, homeVars>>

NextPosts ==
  \/ Tick
  \/ \E insertPost \in PostInputs : CallCreatePost(insertPost)
  \/ \E post \in inflight : AwaitCreatePost(post)
  \/ \E id \in PostIds, postUpdate \in PostUpdates :
        CallUpdatePost(id, postUpdate)
  \/ \E id \in PostIds : CallDeletePost(id)

SpecPosts == Init /\ [][NextPosts]_vars

----------------------------------------------------------------------------
(* What the log of direct calls says the post collection should hold. *)

LogIdx == 1..Len(log)

\* The createPost calls whose post no later deletePost call removed.
LiveCreates ==
  { i \in LogIdx :
      /\ log[i].op = "createPost"
      /\ ~ \E j \in LogIdx :
             j > i /\ log[j].op = "deletePost" /\ log[j].id = log[i].id }

\* The updatePost calls made on the post of create i after its creation.
UpdatesOf(i) ==
  { j \in LogIdx :
      j > i /\ log[j].op = "updatePost" /\ log[j].id = log[i].id }

\* The fields a post has when created: its input, its id, its createdAt.
CreationFields(i) ==
  [k \in (DOMAIN log[i].arg) \cup {"id", "createdAt"} |->
     IF k = "id" THEN log[i].id
     ELSE IF k = "createdAt" THEN log[i].at
     ELSE log[i].arg[k]]

\* The post of create i: each key holds the value of the last update that
\* carries the key, and its creation value when no update carries it.
ExpectedPost(i) ==
  LET keys == (DOMAIN CreationFields(i))
                \cup UNION {DOMAIN log[j].arg : j \in UpdatesOf(i)}
      carriers(k) == {j \in UpdatesOf(i) : k \in DOMAIN log[j].arg}
      latest(k) == CHOOSE j \in carriers(k) :
                     \A j2 \in carriers(k) : j2 <= j
  IN [k \in keys |->
        IF carriers(k) = {} THEN CreationFields(i)[k]
        ELSE log[latest(k)].arg[k]]

\* The live creates in call order.
RECURSIVE LiveFrom(_)
LiveFrom(i) ==
  IF i > Len(log) THEN <<>>
  ELSE IF i \in LiveCreates THEN <<ExpectedPost(i)>> \o LiveFrom(i + 1)
  ELSE LiveFrom(i + 1)

ExpectedPosts == LiveFrom(1)

\* C1: after any sequence of createPost, updatePost and deletePost calls,
\* getAllPosts() returns exactly the posts created and not deleted since
\* (in creation order), each holding its creation fields overwritten by
\* the keys of its later updates in order.
C1_GetAllPostsIsLogReplay == getAllPosts = ExpectedPosts

\* C1 witness: a post that was updated twice on the same key by different
\* values is stored, after another post was created and deleted.
C1_Witness ==
  \E i \in LiveCreates :
    /\ \E j1, j2 \in UpdatesOf(i) :
         /\ j1 < j2
         /\ "title" \in DOMAIN log[j1].arg
         /\ "title" \in DOMAIN log[j2].arg
         /\ log[j1].arg["title"] # log[j2].arg["title"]
    /\ Len(getAllPosts) = 1

\* C1 second case: a created post that a later deletePost removed.
C1_WitnessDeleted ==
  /\ \E i \in LogIdx : log[i].op = "createPost" /\ i \notin LiveCreates
  /\ LiveCreates # {}

\* A step that is a deletePost call.
DeleteStep ==
  /\ Len(log') = Len(log) + 1
  /\ log'[Len(log')].op = "deletePost"

\* A step that is an updatePost call.
UpdateStep ==
  /\ Len(log') = Len(log) + 1
  /\ log'[Len(log')].op = "updatePost"

\* C2: updatePost(id, partial) never changes the stored post's id or
\* createdAt, even when the partial carries an id or createdAt key.
C2_UpdateKeepsIdAndCreatedAt ==
  [][UpdateStep =>
       LET id == log'[Len(log')].id
       IN MapHas(posts, id) =>
            /\ MapGet(posts', id)["id"] = id
            /\ MapGet(posts', id)["createdAt"] = MapGet(posts, id)["createdAt"]
    ]_vars

\* C3: the ids createPost hands out are pairwise distinct and strictly
\* increasing in assignment order, also with several calls in flight, and
\* an id freed by deletePost is never assigned to a later post.
C3_IdsIncreaseAndAreNeverReused ==
  /\ \A i, j \in LogIdx :
       (i < j /\ log[i].op = "createPost" /\ log[j].op = "createPost")
         => log[i].id < log[j].id
  /\ \A i, j \in LogIdx :
       (i < j /\ log[i].op = "deletePost" /\ log[i].ret
              /\ log[j].op = "createPost")
         => log[j].id # log[i].id
  /\ \A p, q \in inflight : p # q => p["id"] # q["id"]

\* C3 witness: a post was created and deleted, a second createPost ran
\* after the delete, and both createPost calls are still in flight.
C3_Witness ==
  /\ Cardinality(inflight) = 2
  /\ \E i, j \in LogIdx :
       /\ i < j
       /\ log[i].op = "deletePost" /\ log[i].ret
       /\ log[j].op = "createPost"

\* C4: deletePost(id) returns true exactly when a post with that id was
\* stored at the time of the call; afterwards getPost(id) returns absence
\* and a second deletePost(id) returns false.
C4_DeleteReturnsWhetherStored ==
  [][DeleteStep =>
       LET e == log'[Len(log')]
       IN /\ e.ret <=> MapHas(posts, e.id)
          /\ MapGet(posts', e.id) = Undefined
          /\ ~MapHas(posts', e.id)
          /\ (/\ Len(log) >= 1
              /\ log[Len(log)].op = "deletePost"
              /\ log[Len(log)].id = e.id) => ~e.ret
    ]_vars

\* C4 witness: a stored post was deleted (true) and deleted again (false),
\* and getPost of its id now returns absence.
C4_Witness ==
  /\ Len(log) = 3
  /\ log[1].op = "createPost"
  /\ log[2].op = "deletePost" /\ log[2].id = log[1].id /\ log[2].ret
  /\ log[3].op = "deletePost" /\ log[3].id = log[1].id /\ ~log[3].ret
  /\ getPost(log[1].id) = Undefined

\* C12: a post created with no published field is stored and returned with
\* published = true.
C12_PublishedDefaultsToTrue ==
  /\ \A i \in LiveCreates :
       ("published" \notin DOMAIN log[i].arg /\ UpdatesOf(i) = {}) =>
         LET post == getPost(log[i].id)
         IN "published" \in DOMAIN post /\ post["published"] = TRUE
  /\ \A post \in inflight :
       "published" \in DOMAIN post


----------------------------------------------------------------------------
(* Comment methods. *)

\* const comment = { ...insertComment, id, createdAt: now }
CreateCommentRecord(insertComment, id, now) ==
  Spread(insertComment, [id |-> id, createdAt |-> now])

\* The body of createComment: its effect on the store.
createComment(insertComment) ==
  /\ currentCommentId' = currentCommentId + 1
  /\ comments' = MapSet(comments, currentCommentId,
                        CreateCommentRecord(insertComment, currentCommentId,
                                            clock))
  /\ UNCHANGED <<users, posts, currentUserId, currentPostId>>

createCommentResult(insertComment) ==
  CreateCommentRecord(insertComment, currentCommentId, clock)

\* Mutant: getCommentsByPost without its filter.
getCommentsByPost_Unfiltered(postId) == MapValues(comments)

\* Array.from(this.comments.values()).filter(c => c.postId === postId)
getCommentsByPost(postId) ==
  SelectSeq(MapValues(comments), LAMBDA c : c["postId"] = postId)

\* The body of deleteComment: this.comments.delete(id).
deleteComment(id) ==
  /\ comments' = MapDelete(comments, id)
  /\ UNCHANGED <<users, posts, currentUserId, currentPostId,
                 currentCommentId>>

deleteCommentResult(id) == MapHas(comments, id)

----------------------------------------------------------------------------
(* The HTTP handlers of registerRoutes.                                    *)
(*                                                                         *)
(* A request comes from a caller: nobody (req.isAuthenticated() is false)  *)
(* or a session whose req.user is one of the stored users.  Request bodies *)
(* are JSON objects whose values have the types the schema asks for; what  *)
(* varies is which keys a body carries.                                    *)

Anonymous == [anonymous |-> TRUE]

Callers == {Anonymous} \cup {users[i].v : i \in 1..Len(users)}

isAuthenticated(caller) == caller # Anonymous

\* Mutant: authorId is not among the picked keys.
PostSchemaKeys_WithoutAuthorId ==
  {"title", "content", "imageUrl", "category", "tags", "published"}

\* The keys insertPostSchema picks, and those it requires (notNull columns
\* without a default).
PostSchemaKeys ==
  {"title", "content", "imageUrl", "category", "tags", "authorId",
   "published"}

PostSchemaRequired == {"title", "content"}

CommentSchemaKeys == {"content", "authorId", "postId"}

CommentSchemaRequired == {"content"}

\* schema.parse(data) succeeds when every required key is there ...
SchemaAccepts(required, data) == required \subseteq DOMAIN data

\* ... and returns data without the keys the schema does not know.
SchemaStrip(keys, data) == [k \in (DOMAIN data) \cap keys |-> data[k]]

\* Bodies of POST /api/posts: plain; carrying another user's authorId and
\* an id; without the required title.
PostBodies ==
  { [title |-> "a", content |-> "x"],
    [title |-> "b", content |-> "x", authorId |-> 1, id |-> 7],
    [content |-> "x"] }

\* Bodies of PUT /api/posts/:id: a new title, with keys the schema does
\* not know; a new authorId.
PutBodies ==
  { [title |-> "c", id |-> 7, createdAt |-> 9],
    [authorId |-> 1] }

\* Bodies of POST /api/posts/:postId/comments.
CommentBodies ==
  { [content |-> "hi"],
    [authorId |-> 1, postId |-> 7] }

CommentIds == 1..MaxComments

\* Post ids named by requests.
RoutePostIds == 1..MaxRoutePosts

Response(op, arg, caller, status, body) ==
  [op |-> op, arg |-> arg,
   ret |-> [status |-> status, body |-> body,
            caller |-> IF isAuthenticated(caller) THEN caller["id"] ELSE 0]]

Message(text) == [message |-> text]

NoContent == [empty |-> TRUE]

\* Accounts registered while the handlers run; the input carries an isAdmin
\* key of its own.
RegisterInputs ==
  { [username |-> "eve", password |-> "pw", isAdmin |-> TRUE] }

\* The registration path: storage.createUser with the submitted fields.
Register(insertUser) ==
  /\ currentUserId <= MaxRegistered
  /\ CallCreateUser(insertUser)

\* app.get("/api/posts/:id")
Route_GetPost(postId) ==
  LET caller == Anonymous IN
  /\ last' = IF getPost(postId) = Undefined
             THEN Response("GET /api/posts/:id", postId, caller, 404,
                           Message("Post not found"))
             ELSE Response("GET /api/posts/:id", postId, caller, 200,
                           getPost(postId))
  /\ UNCHANGED <<storeVars, clock, inflight, log, homeVars>>

\* Mutant: the body spread last, { authorId: req.user.id, ...req.body }.
CreatePostData_BodyWins(body, caller) ==
  Spread([authorId |-> caller["id"]], body)

\* { ...req.body, authorId: req.user.id }
CreatePostData(body, caller) ==
  Spread(body, [authorId |-> caller["id"]])

\* app.post("/api/posts")
Route_CreatePost(caller, body) ==
  /\ currentPostId <= MaxRoutePosts
  /\ IF ~isAuthenticated(caller)
     THEN /\ last' = Response("POST /api/posts", 0, caller, 401,
                              Message("Unauthorized"))
          /\ UNCHANGED storeVars
     ELSE LET data == CreatePostData(body, caller)
              validatedData == SchemaStrip(PostSchemaKeys, data)
          IN IF ~SchemaAccepts(PostSchemaRequired, data)
             THEN /\ last' = Response("POST /api/posts", 0, caller, 400,
                                      Message("Invalid post data"))
                  /\ UNCHANGED storeVars
             ELSE /\ createPost(validatedData)
                  /\ last' = Response("POST /api/posts", 0, caller, 201,
                                      createPostResult(validatedData))
  /\ UNCHANGED <<clock, inflight, log, homeVars>>

\* Mutant: the ownership check left out.
MayMutate_NoCheck(post, caller) == TRUE

\* if (post.authorId !== req.user.id && !req.user.isAdmin) -> 403
MayMutate(post, caller) ==
  ~( (IF "authorId" \in DOMAIN post
      THEN post["authorId"] # caller["id"] ELSE TRUE)
     /\ ~caller["isAdmin"] )

\* app.put("/api/posts/:id")
Route_UpdatePost(caller, postId, body) ==
  LET op == "PUT /api/posts/:id"
      post == getPost(postId)
      validatedData == SchemaStrip(PostSchemaKeys, body)
  IN /\ IF ~isAuthenticated(caller)
        THEN /\ last' = Response(op, postId, caller, 401,
                                 Message("Unauthorized"))
             /\ UNCHANGED storeVars
        ELSE IF post = Undefined
        THEN /\ last' = Response(op, postId, caller, 404,
                                 Message("Post not found"))
             /\ UNCHANGED storeVars
        ELSE IF ~MayMutate(post, caller)
        THEN /\ last' = Response(op, postId, caller, 403,
                                 Message("Forbidden"))
             /\ UNCHANGED storeVars
        ELSE /\ updatePost(postId, validatedData)
             /\ last' = Response(op, postId, caller, 200,
                                 updatePostResult(postId, validatedData))
     /\ UNCHANGED <<clock, inflight, log, homeVars>>

\* app.delete("/api/posts/:id")
Route_DeletePost(caller, postId) ==
  LET op == "DELETE /api/posts/:id"
      post == getPost(postId)
  IN /\ IF ~isAuthenticated(caller)
        THEN /\ last' = Response(op, postId, caller, 401,
                                 Message("Unauthorized"))
             /\ UNCHANGED storeVars
        ELSE IF post = Undefined
        THEN /\ last' = Response(op, postId, caller, 404,
                                 Message("Post not found"))
             /\ UNCHANGED storeVars
        ELSE IF ~MayMutate(post, caller)
        THEN /\ last' = Response(op, postId, caller, 403,
                                 Message("Forbidden"))
             /\ UNCHANGED storeVars
        ELSE /\ deletePost(postId)
             /\ last' = Response(op, postId, caller, 204, NoContent)
     /\ UNCHANGED <<clock, inflight, log, homeVars>>

\* app.get("/api/posts/:postId/comments")
Route_GetComments(postId) ==
  LET caller == Anonymous IN
  /\ last' = Response("GET /api/posts/:postId/comments", postId, caller, 200,
                      [list |-> getCommentsByPost(postId)])
  /\ UNCHANGED <<storeVars, clock, inflight, log, homeVars>>

\* app.post("/api/posts/:postId/comments")
Route_CreateComment(caller, postId, body) ==
  LET op == "POST /api/posts/:postId/comments"
  IN /\ currentCommentId <= MaxComments
     /\ IF ~isAuthenticated(caller)
        THEN /\ last' = Response(op, postId, caller, 401,
                                 Message("Unauthorized"))
             /\ UNCHANGED storeVars
        ELSE IF getPost(postId) = Undefined
        THEN /\ last' = Response(op, postId, caller, 404,
                                 Message("Post not found"))
             /\ UNCHANGED storeVars
        ELSE LET data == Spread(body, [authorId |-> caller["id"],
                                       postId |-> postId])
                 validatedData == SchemaStrip(CommentSchemaKeys, data)
             IN IF ~SchemaAccepts(CommentSchemaRequired, data)
                THEN /\ last' = Response(op, postId, caller, 400,
                                         Message("Invalid comment data"))
                     /\ UNCHANGED storeVars
                ELSE /\ createComment(validatedData)
                     /\ last' = Response(op, postId, caller, 201,
                                         createCommentResult(validatedData))
     /\ UNCHANGED <<clock, inflight, log, homeVars>>

\* app.delete("/api/comments/:id")
Route_DeleteComment(caller, commentId) ==
  LET op == "DELETE /api/comments/:id"
  IN /\ IF ~isAuthenticated(caller)
        THEN /\ last' = Response(op, commentId, caller, 401,
                                 Message("Unauthorized"))
             /\ UNCHANGED storeVars
        ELSE /\ deleteComment(commentId)
             /\ last' = Response(op, commentId, caller, 204, NoContent)
     /\ UNCHANGED <<clock, inflight, log, homeVars>>

(* No handler reads a createdAt or the clock, so the handlers are taken    *)
(* at one reading of the clock.                                            *)
NextRoutes ==
  \/ \E insertUser \in RegisterInputs : Register(insertUser)
  \/ \E postId \in RoutePostIds : Route_GetPost(postId)
  \/ \E caller \in Callers, body \in PostBodies :
        Route_CreatePost(caller, body)
  \/ \E caller \in Callers, postId \in RoutePostIds, body \in PutBodies :
        Route_UpdatePost(caller, postId, body)
  \/ \E caller \in Callers, postId \in RoutePostIds :
        Route_DeletePost(caller, postId)
  \/ \E postId \in RoutePostIds : Route_GetComments(postId)
  \/ \E caller \in Callers, postId \in RoutePostIds, body \in CommentBodies :
        Route_CreateComment(caller, postId, body)
  \/ \E caller \in Callers, commentId \in CommentIds :
        Route_DeleteComment(caller, commentId)

SpecRoutes == Init /\ [][NextRoutes]_vars

----------------------------------------------------------------------------
(* Properties of the handlers.  Every handler sets last to its response    *)
(* and leaves the clock alone, and Tick leaves last alone: in a step that  *)
(* keeps the clock, last' is the response to the request of that step.     *)

RouteStep(op) == last'.op = op /\ clock' = clock

\* Whether the stored user with this id is an admin (0: no session).
IsAdminId(id) == id # 0 /\ MapGet(users, id)["isAdmin"]

\* C7: PUT or DELETE /api/posts/:id changes or removes the stored post only
\* when the caller is authenticated and is the post's author or an admin;
\* an unauthenticated caller is answered 401, any other authenticated
\* caller 403, and in both cases the store is unchanged.
C7_OnlyAuthorOrAdminMutatesPost ==
  [][\A op \in {"PUT /api/posts/:id", "DELETE /api/posts/:id"} :
       RouteStep(op) =>
         LET caller == last'.ret.caller
             post == MapGet(posts, last'.arg)
             owner == post # Undefined /\ post["authorId"] = caller
         IN /\ (storeVars' # storeVars) =>
                 /\ caller # 0
                 /\ post # Undefined
                 /\ owner \/ IsAdminId(caller)
            /\ (caller = 0) =>
                 last'.ret.status = 401 /\ UNCHANGED storeVars
            /\ (caller # 0 /\ post # Undefined
                  /\ ~owner /\ ~IsAdminId(caller)) =>
                 last'.ret.status = 403 /\ UNCHANGED storeVars
    ]_vars

\* C7 witness: an authenticated user who is neither the author nor an
\* admin was answered 403 on a PUT, and the post is still stored.
C7_Witness ==
  /\ last.op = "PUT /api/posts/:id"
  /\ last.ret.status = 403
  /\ MapHas(posts, last.arg)
  /\ MapGet(posts, last.arg)["authorId"] # last.ret.caller
  /\ ~IsAdminId(last.ret.caller)

\* C7, the other cases reached: a non-admin author removed their own post;
\* an unauthenticated DELETE of a stored post was answered 401.
C7_WitnessAuthorDeletes ==
  /\ last.op = "DELETE /api/posts/:id"
  /\ last.ret.status = 204
  /\ last.ret.caller = 2
  /\ ~MapHas(posts, last.arg)

C7_WitnessUnauthenticated ==
  /\ last.op = "DELETE /api/posts/:id"
  /\ last.ret.status = 401
  /\ MapHas(posts, last.arg)

\* C8: DELETE /api/comments/:id removes the comment only when the
\* authenticated caller is the comment's author or an admin; for any other
\* authenticated caller the comment stays in the store.
C8_OnlyAuthorOrAdminDeletesComment ==
  [][RouteStep("DELETE /api/comments/:id") =>
       LET caller == last'.ret.caller
           comment == MapGet(comments, last'.arg)
       IN (comments' # comments) =>
            /\ caller # 0
            /\ comment["authorId"] = caller \/ IsAdminId(caller)
    ]_vars

\* C9: a post created through POST /api/posts is stored with authorId equal
\* to the authenticated caller's id, whatever authorId the body carries; an
\* unauthenticated create is answered 401 and stores nothing.
C9_CreatedPostBelongsToCaller ==
  [][RouteStep("POST /api/posts") =>
       LET caller == last'.ret.caller
       IN /\ (caller = 0) =>
               last'.ret.status = 401 /\ UNCHANGED storeVars
          /\ (posts' # posts) =>
               /\ last'.ret.status = 201
               /\ Len(posts') = Len(posts) + 1
               /\ posts'[Len(posts')].v = last'.ret.body
               /\ posts'[Len(posts')].v["authorId"] = caller
               /\ caller # 0
               /\ \A i \in 1..Len(posts) : posts'[i] = posts[i]
          /\ (last'.ret.status = 201) => posts' # posts
    ]_vars

\* C9 witness: user 2 posted the body that carries authorId 1 (title "b")
\* and the post is stored with authorId 2.
C9_Witness ==
  /\ last.op = "POST /api/posts"
  /\ last.ret.status = 201
  /\ last.ret.caller = 2
  /\ last.ret.body["title"] = "b"
  /\ MapGet(posts, last.ret.body["id"])["authorId"] = 2

\* C10: a get, update or delete request that names a post id or comment id
\* matching no stored entity is answered with a not-found response and
\* leaves the store unchanged; in particular DELETE /api/comments/:id on an
\* unknown comment id is not answered as a success.  (Stated for requests
\* that pass the handler's authentication check, which comes first.)
C10_UnknownIdIsNotFound ==
  [][/\ \A op \in {"GET /api/posts/:id", "PUT /api/posts/:id",
                   "DELETE /api/posts/:id"} :
          (/\ RouteStep(op)
           /\ ~MapHas(posts, last'.arg)
           /\ op = "GET /api/posts/:id" \/ last'.ret.caller # 0)
            => last'.ret.status = 404 /\ UNCHANGED storeVars
     /\ (/\ RouteStep("DELETE /api/comments/:id")
         /\ ~MapHas(comments, last'.arg)
         /\ last'.ret.caller # 0)
          => last'.ret.status = 404 /\ UNCHANGED storeVars
    ]_vars

\* The part of C10 the post handlers meet: an unknown post id is answered
\* 404 by GET, and by PUT and DELETE for an authenticated caller.
C10_UnknownPostIdIsNotFound ==
  [][\A op \in {"GET /api/posts/:id", "PUT /api/posts/:id",
                "DELETE /api/posts/:id"} :
       (/\ RouteStep(op)
        /\ ~MapHas(posts, last'.arg)
        /\ op = "GET /api/posts/:id" \/ last'.ret.caller # 0)
         => last'.ret.status = 404 /\ UNCHANGED storeVars
    ]_vars

----------------------------------------------------------------------------
(* Creating and updating posts with empty text. *)

\* Bodies of POST /api/posts whose title or content is the empty string.
EmptyTextPostBodies ==
  { [title |-> "", content |-> "x"],
    [title |-> "a", content |-> ""] }

\* Bodies of PUT /api/posts/:id that empty the title or the content.
EmptyTextPutBodies ==
  { [title |-> ""],
    [content |-> "", id |-> 7] }

NextPostWrites ==
  \/ \E insertUser \in RegisterInputs : Register(insertUser)
  \/ \E caller \in Callers, body \in PostBodies \cup EmptyTextPostBodies :
        Route_CreatePost(caller, body)
  \/ \E caller \in Callers, postId \in RoutePostIds,
        body \in PutBodies \cup EmptyTextPutBodies :
        Route_UpdatePost(caller, postId, body)
  \/ \E caller \in Callers, postId \in RoutePostIds :
        Route_DeletePost(caller, postId)

SpecPostWrites == Init /\ [][NextPostWrites]_vars

\* C11: every stored post has a non-empty title and a non-empty content: a
\* create or update through the routes whose title or content is the empty
\* string is rejected with a validation error and leaves the store
\* unchanged.
C11_StoredTextIsNeverEmpty ==
  \A i \in 1..Len(posts) :
    /\ posts[i].v["title"] # ""
    /\ posts[i].v["content"] # ""

----------------------------------------------------------------------------
(* Text.  Where the characters of a string matter (case folding, substring *)
(* search, joining) the string is the sequence of its characters.          *)

UpperCaseLetters ==
  <<"A", "B", "C", "D", "E", "F", "G", "H", "I", "J", "K", "L", "M",
    "N", "O", "P", "Q", "R", "S", "T", "U", "V", "W", "X", "Y", "Z">>

LowerCaseLetters ==
  <<"a", "b", "c", "d", "e", "f", "g", "h", "i", "j", "k", "l", "m",
    "n", "o", "p", "q", "r", "s", "t", "u", "v", "w", "x", "y", "z">>

\* The position of a character in an alphabet, 0 when it is not in it.
LetterIndex(alphabet, c) ==
  IF \E i \in 1..Len(alphabet) : alphabet[i] = c
  THEN CHOOSE i \in 1..Len(alphabet) : alphabet[i] = c
  ELSE 0

\* String.prototype.toLowerCase: an upper-case letter becomes its
\* lower-case letter, any other character stays.
LowerChar(c) ==
  IF LetterIndex(UpperCaseLetters, c) # 0
  THEN LowerCaseLetters[LetterIndex(UpperCaseLetters, c)]
  ELSE c

toLowerCase(s) == [i \in 1..Len(s) |-> LowerChar(s[i])]

\* String.prototype.includes: q occurs in s at some position k.
includes(s, q) ==
  \E k \in 0..Len(s) :
    /\ k + Len(q) <= Len(s)
    /\ \A j \in 1..Len(q) : s[k + j] = q[j]

----------------------------------------------------------------------------
(* searchPosts. *)

\* Inputs of createPost whose text matters: mixed case in the title, in the
\* content and in the tags, and a post without tags.
TextPostInputs ==
  { [title |-> <<"A", "b">>, content |-> <<"c">>, authorId |-> 1],
    [title |-> <<"c">>, content |-> <<"B", "a">>, authorId |-> 1,
     tags |-> <<"c", "c">>],
    [title |-> <<"c">>, content |-> <<"c">>, authorId |-> 2,
     tags |-> <<"a", "B">>],
    [title |-> <<"b">>, content |-> <<>>, authorId |-> 2] }

SearchQueries ==
  { <<>>, <<"a", "B">>, <<"b">>, <<"B", "A">>, <<"c", "c">>, <<"d">>,
    <<"a", "b", "a">> }

\* post.tags?.toLowerCase().includes(lowerQuery): undefined, hence false in
\* the filter, for a post without tags.
TagsInclude(post, lowerQuery) ==
  IF "tags" \in DOMAIN post
  THEN includes(toLowerCase(post["tags"]), lowerQuery)
  ELSE FALSE

\* Mutant: the query is not lower-cased.
SearchMatches_QueryAsGiven(post, query) ==
  \/ includes(toLowerCase(post["title"]), query)
  \/ includes(toLowerCase(post["content"]), query)
  \/ TagsInclude(post, query)

\* The predicate searchPosts filters by.
SearchMatches(post, query) ==
  LET lowerQuery == toLowerCase(query)
  IN \/ includes(toLowerCase(post["title"]), lowerQuery)
     \/ includes(toLowerCase(post["content"]), lowerQuery)
     \/ TagsInclude(post, lowerQuery)

\* searchPosts: Array.from(this.posts.values()).filter(...)
searchPosts(query) ==
  SelectSeq(MapValues(posts), LAMBDA post : SearchMatches(post, query))

CallSearchPosts(query) ==
  /\ last' = [op |-> "searchPosts", arg |-> query,
              ret |-> [list |-> searchPosts(query)]]
  /\ UNCHANGED <<storeVars, clock, inflight, log, homeVars>>

NextSearch ==
  \/ \E insertPost \in TextPostInputs : CallCreatePost(insertPost)
  \/ \E id \in PostIds : CallDeletePost(id)
  \/ \E query \in SearchQueries : CallSearchPosts(query)

SpecSearch == Init /\ [][NextSearch]_vars

\* q is a substring of s: s is some prefix, then q, then some suffix.
IsSubstring(q, s) ==
  \E i, j \in 0..Len(s) : i <= j /\ SubSeq(s, i + 1, j) = q

\* The text fields a post is searched in.
SearchedFields(post) == {"title", "content", "tags"} \cap DOMAIN post

\* A step that is a searchPosts call: the other steps leave last alone.
SearchStep == last'.op = "searchPosts" /\ last' # last

\* C13: searchPosts("") returns every stored post, and searchPosts(q)
\* returns exactly the stored posts in which the lower-cased q is a
\* substring of the lower-cased title, content or tags, a post without tags
\* being matched on title and content only.
C13_SearchReturnsExactlyTheMatches ==
  [][SearchStep =>
       LET q == last'.arg
           found == last'.ret.list
           Hit(post) == \E f \in SearchedFields(post) :
                          IsSubstring(toLowerCase(q), toLowerCase(post[f]))
       IN /\ (q = <<>>) => found = getAllPosts
          /\ found = SelectSeq(getAllPosts, Hit)
    ]_vars

\* C13 witness: two posts are stored and a search in mixed case returned
\* only the second, which matches by its tags alone.
C13_Witness ==
  /\ last.op = "searchPosts"
  /\ last.arg = <<"a", "B">>
  /\ Len(posts) = 2
  /\ Len(last.ret.list) = 1
  /\ last.ret.list[1] = posts[2].v
  /\ ~IsSubstring(<<"a", "b">>, toLowerCase(posts[2].v["title"]))
  /\ ~IsSubstring(<<"a", "b">>, toLowerCase(posts[2].v["content"]))

\* C13, the other cases reached: the empty query returned both stored
\* posts; a post without tags was passed over while its neighbour matched.
C13_WitnessEmptyQuery ==
  /\ last.op = "searchPosts"
  /\ last.arg = <<>>
  /\ Len(posts) = 2
  /\ last.ret.list = getAllPosts

----------------------------------------------------------------------------
(* Direct calls of the comment methods, recorded in log like the post      *)
(* calls.  getCommentsByPost changes nothing: it is the operator above,    *)
(* read in every state.                                                    *)

MaxStoreComments == 3
MaxCommentOps == 4

\* Inputs of createComment (InsertComment objects), on two posts.
CommentInputs ==
  { [content |-> "hi", authorId |-> 1, postId |-> 1],
    [content |-> "yo", authorId |-> 2, postId |-> 1],
    [content |-> "hi", authorId |-> 1, postId |-> 2] }

StoreCommentIds == 1..MaxStoreComments

CommentPostIds == {1, 2, 3}

CallCreateComment(insertComment) ==
  /\ currentCommentId <= MaxStoreComments
  /\ Len(log) < MaxCommentOps
  /\ createComment(insertComment)
  /\ log' = Append(log, [op |-> "createComment", id |-> currentCommentId,
                         arg |-> insertComment,
                         ret |-> createCommentResult(insertComment)])
  /\ UNCHANGED <<clock, inflight, last, homeVars>>

CallDeleteComment(id) ==
  /\ Len(log) < MaxCommentOps
  /\ deleteComment(id)
  /\ log' = Append(log, [op |-> "deleteComment", id |-> id,
                         ret |-> deleteCommentResult(id)])
  /\ UNCHANGED <<clock, inflight, last, homeVars>>

NextComments ==
  \/ Tick
  \/ \E insertComment \in CommentInputs : CallCreateComment(insertComment)
  \/ \E id \in StoreCommentIds : CallDeleteComment(id)

SpecComments == Init /\ [][NextComments]_vars

\* The createComment calls whose comment no later deleteComment removed.
LiveCommentCreates ==
  { i \in LogIdx :
      /\ log[i].op = "createComment"
      /\ ~ \E j \in LogIdx :
             j > i /\ log[j].op = "deleteComment" /\ log[j].id = log[i].id }

\* Whether, just before call j, a comment with this id was stored: some
\* earlier createComment returned it and no deleteComment in between
\* removed it.
CommentStoredBefore(j, id) ==
  \E i \in 1..(j - 1) :
    /\ log[i].op = "createComment" /\ log[i].ret["id"] = id
    /\ ~ \E k \in (i + 1)..(j - 1) :
           log[k].op = "deleteComment" /\ log[k].id = id

\* The comments the log says are on the post, in call order.
RECURSIVE LiveCommentsFrom(_, _)
LiveCommentsFrom(i, postId) ==
  IF i > Len(log) THEN <<>>
  ELSE IF i \in LiveCommentCreates /\ log[i].arg["postId"] = postId
       THEN <<log[i].ret>> \o LiveCommentsFrom(i + 1, postId)
       ELSE LiveCommentsFrom(i + 1, postId)

\* C14: createComment assigns strictly increasing ids that are never
\* reused after a deleteComment; deleteComment(id) returns true exactly
\* when a comment with that id existed; getCommentsByPost(p) returns exactly
\* the comments created with postId = p and not deleted since.
C14_CommentIdsAndListing ==
  /\ \A i, j \in LogIdx :
       (i < j /\ log[i].op = "createComment" /\ log[j].op = "createComment")
         => log[i].ret["id"] < log[j].ret["id"]
  /\ \A i, j \in LogIdx :
       (i < j /\ log[i].op = "deleteComment" /\ log[i].ret
              /\ log[j].op = "createComment")
         => log[j].ret["id"] # log[i].id
  /\ \A j \in LogIdx :
       log[j].op = "deleteComment" =>
         (log[j].ret <=> CommentStoredBefore(j, log[j].id))
  /\ \A p \in CommentPostIds :
       getCommentsByPost(p) = LiveCommentsFrom(1, p)

\* C14 witness: a comment was created and deleted (true), deleted again
\* (false), and a comment created afterwards on the same post got a new id
\* and is the only one listed for the post.
C14_Witness ==
  /\ Len(log) = 4
  /\ log[1].op = "createComment"
  /\ log[2].op = "deleteComment" /\ log[2].id = log[1].ret["id"] /\ log[2].ret
  /\ log[3].op = "deleteComment" /\ log[3].id = log[2].id /\ ~log[3].ret
  /\ log[4].op = "createComment"
  /\ log[4].arg["postId"] = log[1].arg["postId"]
  /\ getCommentsByPost(log[4].arg["postId"]) = <<log[4].ret>>

\* C14, a second case reached: comments on two posts are stored and the
\* listing of one post leaves the other post's comment out.
C14_WitnessTwoPosts ==
  /\ Len(getCommentsByPost(1)) = 2
  /\ Len(getCommentsByPost(2)) = 1

----------------------------------------------------------------------------
(* HomePage: the effect that filters and sorts the posts to display.       *)

\* const posts = [...internalPosts, ...externalPosts]
Posts == internalPosts \o externalPosts

\* post.category?.toLowerCase() === selectedCategory: undefined, hence
\* false, for a post without category.
CategoryIs(post, category) ==
  IF "category" \in DOMAIN post
  THEN toLowerCase(post["category"]) = category
  ELSE FALSE

\* Mutant: a category that matches no post keeps them all.
CategoryFilter_KeepsAllWhenEmpty(list, category) ==
  IF category # All
       /\ SelectSeq(list, LAMBDA post : CategoryIs(post, category)) # <<>>
  THEN SelectSeq(list, LAMBDA post : CategoryIs(post, category))
  ELSE list

\* The first map: filter by category if not 'all'.
CategoryFilter(list, category) ==
  IF category # All
  THEN SelectSeq(list, LAMBDA post : CategoryIs(post, category))
  ELSE list

\* The second map: filter by search query if there is one; its predicate
\* is that of searchPosts.
SearchFilter(list, query) ==
  IF query # <<>>
  THEN SelectSeq(list, LAMBDA post : SearchMatches(post, query))
  ELSE list

\* Mutant: a missing createdAt counts as a late time.
TimeOf_MissingIsLate(post) ==
  IF "createdAt" \in DOMAIN post THEN post["createdAt"] ELSE 9

\* new Date(post.createdAt || 0).getTime(): a time is its number of
\* milliseconds, a missing createdAt counts as 0.
TimeOf(post) == IF "createdAt" \in DOMAIN post THEN post["createdAt"] ELSE 0

\* Lexicographic comparison of two sequences of numbers: -1, 0 or 1.
RECURSIVE LexCompare(_, _)
LexCompare(x, y) ==
  IF x = <<>> /\ y = <<>> THEN 0
  ELSE IF x = <<>> THEN -1
  ELSE IF y = <<>> THEN 1
  ELSE IF Head(x) < Head(y) THEN -1
  ELSE IF Head(x) > Head(y) THEN 1
  ELSE LexCompare(Tail(x), Tail(y))

\* String.prototype.localeCompare on letters: by the letters whatever
\* their case, then, between strings of the same letters, lower case first.
localeCompare(a, b) ==
  LET letters(s) == [i \in 1..Len(s) |->
                       LetterIndex(LowerCaseLetters, LowerChar(s[i]))]
      cases(s) == [i \in 1..Len(s) |->
                     IF LetterIndex(UpperCaseLetters, s[i]) # 0 THEN 1 ELSE 0]
  IN IF LexCompare(letters(a), letters(b)) # 0
     THEN LexCompare(letters(a), letters(b))
     ELSE LexCompare(cases(a), cases(b))

\* Mutant: the default case sorts like 'oldest'.
Compare_DefaultIsOldest(key, a, b) ==
  CASE key = "oldest" -> TimeOf(a) - TimeOf(b)
    [] key = "title_asc" -> localeCompare(a["title"], b["title"])
    [] key = "title_desc" -> localeCompare(b["title"], a["title"])
    [] OTHER -> TimeOf(a) - TimeOf(b)

\* Mutant: 'oldest' takes every pair of posts as equal.
Compare_OldestIsConstant(key, a, b) ==
  CASE key = "oldest" -> 0
    [] key = "title_asc" -> localeCompare(a["title"], b["title"])
    [] key = "title_desc" -> localeCompare(b["title"], a["title"])
    [] OTHER -> TimeOf(b) - TimeOf(a)

Compare_TitleDescIsTitleAsc(key, a, b) ==
  CASE key = "oldest" -> TimeOf(a) - TimeOf(b)
    [] key = "title_asc" -> localeCompare(a["title"], b["title"])
    [] key = "title_desc" -> localeCompare(a["title"], b["title"])
    [] OTHER -> TimeOf(b) - TimeOf(a)

\* The comparator of the third map: switch (sortBy).
Compare(key, a, b) ==
  CASE key = "oldest" -> TimeOf(a) - TimeOf(b)
    [] key = "title_asc" -> localeCompare(a["title"], b["title"])
    [] key = "title_desc" -> localeCompare(b["title"], a["title"])
    [] OTHER -> TimeOf(b) - TimeOf(a)

\* One step of a stable sort: post goes behind the last element that does
\* not compare greater than it.
Insert(sorted, post, key) ==
  LET k == CHOOSE n \in 0..Len(sorted) :
             /\ \A i \in (n + 1)..Len(sorted) : Compare(key, sorted[i], post) > 0
             /\ n > 0 => Compare(key, sorted[n], post) <= 0
  IN SubSeq(sorted, 1, k) \o <<post>> \o SubSeq(sorted, k + 1, Len(sorted))

RECURSIVE SortPrefix(_, _, _)
SortPrefix(list, n, key) ==
  IF n = 0 THEN <<>>
  ELSE Insert(SortPrefix(list, n - 1, key), list[n], key)

\* Array.prototype.sort with the comparator above (the sort is stable).
sort(list, key) == SortPrefix(list, Len(list), key)

\* Mutant: list.sort(...), which sorts the array it is called on.
SortedCopy_InPlace(list, key) ==
  [array |-> sort(list, key), sorted |-> sort(list, key)]

\* [...list].sort(...): the array handed in as the call leaves it, and the
\* sorted copy.
SortedCopy(list, key) ==
  [array |-> list, sorted |-> sort(list, key)]

\* The three maps of the effect, applied to the array posts.  The filters
\* return the array they are given when they do not filter, so that when
\* neither filters the array handed to the sort is posts itself.
FilterAndSort(list, category, query, key) ==
  LET byCategory == CategoryFilter(list, category)
      bySearch == SearchFilter(byCategory, query)
      sorting == SortedCopy(bySearch, key)
  IN [posts |-> IF category = All /\ query = <<>>
                THEN sorting.array ELSE list,
      filteredPosts |-> sorting.sorted]

\* The effect runs after a render: it computes the posts to display from
\* the state of that render and hands them to setFilteredPosts.
Effect ==
  LET run == FilterAndSort(Posts, selectedCategory, searchQuery, sortBy)
  IN /\ filteredPosts' = run.filteredPosts
     /\ last' = [op |-> "effect", arg |-> 0, ret |-> run]
     /\ UNCHANGED <<storeVars, clock, inflight, log, internalPosts,
                    externalPosts, searchQuery, selectedCategory, sortBy,
                    searches, searchCalls>>

----------------------------------------------------------------------------
(* The filter and sort transform on its own: the page holds some posts, a  *)
(* category, a query and a sort key, and the effect runs.                  *)

MaxListLen == 3

Food == <<"f", "o", "o", "d">>

Travel == <<"t", "r", "a", "v", "e", "l">>

\* Posts the ['/api/posts'] query can hold (Post objects: category, tags
\* and createdAt are nullable columns): two posts of the same time, a post
\* without createdAt, a category in capitals, a post without category.
LocalPosts ==
  { [id |-> 1, title |-> <<"b">>, content |-> <<"x">>, authorId |-> 1,
     category |-> <<"F", "o", "o", "d">>, createdAt |-> 1],
    [id |-> 2, title |-> <<"A">>, content |-> <<"a", "b">>, authorId |-> 1,
     createdAt |-> 2],
    [id |-> 3, title |-> <<"a">>, content |-> <<"y">>, authorId |-> 2,
     category |-> Food, tags |-> <<"b">>, createdAt |-> 2],
    [id |-> 4, title |-> <<"B", "a">>, content |-> <<"x">>, authorId |-> 2,
     category |-> Travel],
    [id |-> 5, title |-> <<"c">>, content |-> <<"z">>, authorId |-> 1,
     category |-> Travel, createdAt |-> 3] }

\* The lists of distinct posts of at most MaxListLen posts.
LocalPostLists ==
  { list \in UNION { [1..n -> LocalPosts] : n \in 0..MaxListLen } :
      \A i, j \in 1..Len(list) : i # j => list[i] # list[j] }

\* Data of the external-posts query: none yet, or one mapped post (whose
\* title is also the title of a local post).
ExternalPostLists ==
  { <<>>,
    << [id |-> 1, title |-> <<"c">>, content |-> <<"b">>,
        authorId |-> 9, category |-> Food, tags |-> Food,
        createdAt |-> 4, published |-> TRUE] >> }

\* The categories the filter buttons select.
SelectedCategories == {All, Food, Travel}

\* Queries submitted from the search box.
PageQueries == { <<>>, <<"B">>, <<"x">> }

\* The values of the sort menu, and a value the switch does not know.
SortKeys == {"latest", "oldest", "title_asc", "title_desc", "relevance"}

InitPipeline ==
  /\ users = <<[k |-> 1, v |-> AdminUser]>>
  /\ posts = <<>>
  /\ comments = <<>>
  /\ currentUserId = 2
  /\ currentPostId = 1
  /\ currentCommentId = 1
  /\ clock = 0
  /\ inflight = {}
  /\ last = NoCall
  /\ log = <<>>
  /\ internalPosts \in LocalPostLists
  /\ externalPosts \in ExternalPostLists
  /\ searchQuery \in PageQueries
  /\ selectedCategory \in SelectedCategories
  /\ sortBy \in SortKeys
  /\ filteredPosts = <<>>
  /\ searches = {}
  /\ searchCalls = 0

NextPipeline == Effect

SpecPipeline == InitPipeline /\ [][NextPipeline]_vars

Range(list) == {list[i] : i \in 1..Len(list)}

Reverse(list) == [i \in 1..Len(list) |-> list[Len(list) + 1 - i]]

\* The position of a post in a list of distinct posts.
PositionIn(list, post) == CHOOSE i \in 1..Len(list) : list[i] = post

\* The effect has run on the inputs of this state.
EffectRan == last.op = "effect"

\* C17: the filter and sort transform is pure: it does not modify the
\* array it is given, the same inputs give the same output, and applied to
\* its own output with the same category, query and sort key it returns
\* that output.
C17_TransformIsPure ==
  EffectRan =>
    /\ last.ret.posts = Posts
    /\ FilterAndSort(Posts, selectedCategory, searchQuery, sortBy) = last.ret
    /\ filteredPosts = last.ret.filteredPosts
    /\ FilterAndSort(filteredPosts, selectedCategory, searchQuery,
                     sortBy).filteredPosts = filteredPosts

\* C17 witness: with category 'all' and no query the array handed to the
\* sort is the input itself, and the sort had to move posts.
C17_Witness ==
  /\ EffectRan
  /\ selectedCategory = All /\ searchQuery = <<>>
  /\ Len(Posts) = 3
  /\ filteredPosts # Posts

\* C17, a second case reached: both filters removed posts and the sort
\* moved the posts left.
C17_WitnessFiltered ==
  /\ EffectRan
  /\ selectedCategory # All /\ searchQuery # <<>>
  /\ Len(filteredPosts) = 2
  /\ filteredPosts # SearchFilter(CategoryFilter(Posts, selectedCategory),
                                  searchQuery)

\* C18: filtering by category and then by search keeps the same set of
\* posts as filtering by search and then by category.
C18_FiltersCommute ==
  LET categoryFirst == SearchFilter(CategoryFilter(Posts, selectedCategory),
                                    searchQuery)
      searchFirst == CategoryFilter(SearchFilter(Posts, searchQuery),
                                    selectedCategory)
  IN /\ Range(categoryFirst) = Range(searchFirst)
     /\ EffectRan => Range(filteredPosts) = Range(searchFirst)

\* C18 witness: a category and a query are set, each filter alone removes
\* a post the other keeps, and a post passes both.
C18_Witness ==
  /\ EffectRan
  /\ selectedCategory # All /\ searchQuery # <<>>
  /\ filteredPosts # <<>>
  /\ \E post \in Range(Posts) :
       CategoryIs(post, selectedCategory) /\ ~SearchMatches(post, searchQuery)
  /\ \E post \in Range(Posts) :
       ~CategoryIs(post, selectedCategory) /\ SearchMatches(post, searchQuery)

\* The time the claims sort by: createdAt, a missing one counting as 0.
CreatedAtOrZero(post) ==
  IF "createdAt" \in DOMAIN post THEN post["createdAt"] ELSE 0

\* Equal keys keep the order the posts had in the array posts.
KeepsInputOrderOfEqualTimes(out) ==
  \A i, j \in 1..Len(out) :
    (i < j /\ CreatedAtOrZero(out[i]) = CreatedAtOrZero(out[j]))
      => PositionIn(Posts, out[i]) < PositionIn(Posts, out[j])

\* C19: with sortBy = latest, and with a sort key the switch does not
\* know, the output is in non-increasing createdAt order; with oldest in
\* non-decreasing order; a missing createdAt counts as time 0; posts of
\* equal time keep their input order.  Two local posts created at T1 < T2,
\* with category 'all', no query and sortBy = latest, are displayed as
\* [post@T2, post@T1].
C19_SortedByTime ==
  EffectRan =>
    /\ sortBy \notin {"oldest", "title_asc", "title_desc"} =>
         /\ \A i, j \in 1..Len(filteredPosts) :
              i < j => CreatedAtOrZero(filteredPosts[i]) >= CreatedAtOrZero(filteredPosts[j])
         /\ KeepsInputOrderOfEqualTimes(filteredPosts)
    /\ sortBy = "oldest" =>
         /\ \A i, j \in 1..Len(filteredPosts) :
              i < j => CreatedAtOrZero(filteredPosts[i]) <= CreatedAtOrZero(filteredPosts[j])
         /\ KeepsInputOrderOfEqualTimes(filteredPosts)
    /\ (/\ sortBy = "latest" /\ selectedCategory = All /\ searchQuery = <<>>
        /\ externalPosts = <<>> /\ Len(internalPosts) = 2
        /\ CreatedAtOrZero(internalPosts[1]) # CreatedAtOrZero(internalPosts[2])) =>
         filteredPosts =
           IF CreatedAtOrZero(internalPosts[1]) < CreatedAtOrZero(internalPosts[2])
           THEN <<internalPosts[2], internalPosts[1]>>
           ELSE internalPosts

\* C19 witness: two local posts created at 1 and at 2, given in that
\* order, are displayed newest first.
C19_Witness ==
  /\ EffectRan
  /\ sortBy = "latest" /\ selectedCategory = All /\ searchQuery = <<>>
  /\ externalPosts = <<>> /\ Len(internalPosts) = 2
  /\ CreatedAtOrZero(internalPosts[1]) = 1
  /\ CreatedAtOrZero(internalPosts[2]) = 2
  /\ filteredPosts = <<internalPosts[2], internalPosts[1]>>

\* C19, other cases reached: an unknown sort key with two posts of equal
\* time given after a newer post; oldest with a post without createdAt
\* given last and displayed first.
C19_WitnessUnknownKeyAndTie ==
  /\ EffectRan
  /\ sortBy = "relevance"
  /\ Len(filteredPosts) = 3
  /\ CreatedAtOrZero(filteredPosts[1]) = CreatedAtOrZero(filteredPosts[2])
  /\ CreatedAtOrZero(filteredPosts[3]) < CreatedAtOrZero(filteredPosts[2])
  /\ PositionIn(Posts, filteredPosts[3]) = 1

C19_WitnessMissingCreatedAt ==
  /\ EffectRan
  /\ sortBy = "oldest"
  /\ Len(filteredPosts) = 3
  /\ "createdAt" \notin DOMAIN filteredPosts[1]
  /\ PositionIn(Posts, filteredPosts[1]) = 3

\* No two of the posts have the same time.
DistinctTimes(list) ==
  \A i, j \in 1..Len(list) : i # j => CreatedAtOrZero(list[i]) # CreatedAtOrZero(list[j])

\* C20: when no two posts have equal createdAt (a missing one counting as
\* 0), the output for sortBy = oldest is exactly the reverse of the output
\* for sortBy = latest.
C20_OldestIsReverseOfLatest ==
  LET out(key) == FilterAndSort(Posts, selectedCategory, searchQuery,
                                key).filteredPosts
  IN DistinctTimes(Posts) =>
       /\ out("oldest") = Reverse(out("latest"))
       /\ (EffectRan /\ sortBy = "oldest") =>
            filteredPosts = Reverse(out("latest"))
       /\ (EffectRan /\ sortBy = "latest") =>
            filteredPosts = Reverse(out("oldest"))

\* C20 witness: three posts of distinct times, one of them without
\* createdAt, given in neither order, are displayed oldest first.
C20_Witness ==
  /\ EffectRan
  /\ sortBy = "oldest"
  /\ DistinctTimes(Posts)
  /\ Len(filteredPosts) = 3
  /\ \E post \in Range(filteredPosts) : "createdAt" \notin DOMAIN post
  /\ filteredPosts # Posts
  /\ filteredPosts # Reverse(Posts)

----------------------------------------------------------------------------
(* The external content mapper. *)

Uncategorized ==
  <<"U", "n", "c", "a", "t", "e", "g", "o", "r", "i", "z", "e", "d">>

DigitChars == <<"0", "1", "2", "3", "4", "5", "6", "7", "8", "9">>

\* The decimal digits of a number, as a template literal writes it.
RECURSIVE Decimal(_)
Decimal(n) ==
  IF n < 10 THEN <<DigitChars[n + 1]>>
  ELSE Decimal(n \div 10) \o <<DigitChars[(n % 10) + 1]>>

\* Array.prototype.join
RECURSIVE Join(_, _)
Join(strings, separator) ==
  IF strings = <<>> THEN <<>>
  ELSE IF Len(strings) = 1 THEN strings[1]
  ELSE strings[1] \o separator \o Join(Tail(strings), separator)

\* mutant: the category is the first tag whatever it is.
mapExternalPostToSchema_NoDefaultCategory(post, now) ==
  [id |-> post.id,
   title |-> post.title,
   content |-> post.body,
   authorId |-> post.userId,
   category |-> IF post.tags # <<>> THEN post.tags[1] ELSE <<>>,
   tags |-> Join(post.tags, <<",">>),
   imageUrl |-> <<"https://picsum.photos/seed/">> \o Decimal(post.id)
                  \o <<"/800/500">>,
   createdAt |-> now,
   published |-> TRUE]

\* mapExternalPostToSchema; now is what new Date() reads.  The fixed parts
\* of the image URL are kept as pieces around the digits of the id.
mapExternalPostToSchema(post, now) ==
  [id |-> post.id,
   title |-> post.title,
   content |-> post.body,
   authorId |-> post.userId,
   category |-> IF post.tags # <<>> /\ post.tags[1] # <<>>
                THEN post.tags[1] ELSE Uncategorized,
   tags |-> Join(post.tags, <<",">>),
   imageUrl |-> <<"https://picsum.photos/seed/">> \o Decimal(post.id)
                  \o <<"/800/500">>,
   createdAt |-> now,
   published |-> TRUE]

\* A response is what one request to the external API comes to: fetch
\* resolves or rejects, the status is OK or not, response.json() parses the
\* body or rejects, and posts is the posts array of a parsed body.
FailedResponses ==
  { [fetch |-> "rejected", ok |-> FALSE, json |-> "rejected", posts |-> <<>>],
    [fetch |-> "resolved", ok |-> FALSE, json |-> "parsed",
     posts |-> << [id |-> 7, title |-> <<"a">>, body |-> <<"y">>,
                   userId |-> 8, tags |-> <<Food, <<"b">>>>,
                   reactions |-> 3] >>],
    [fetch |-> "resolved", ok |-> TRUE, json |-> "rejected", posts |-> <<>>] }

Answer(list) ==
  [fetch |-> "resolved", ok |-> TRUE, json |-> "parsed", posts |-> list]

\* mutant: the status of the response is not looked at.
TryFails_IgnoresStatus(response) ==
  \/ response.fetch = "rejected"
  \/ response.json = "rejected"

\* Something inside the try block throws: the request is rejected, the
\* status is not OK (the function throws itself), or the body does not parse.
TryFails(response) ==
  \/ response.fetch = "rejected"
  \/ ~response.ok
  \/ response.json = "rejected"

\* What the search endpoint of the external API may answer: posts (in the
\* API's order, here not the order of their titles), or a failure.
SearchResponses ==
  { Answer(<< [id |-> 12, title |-> <<"b">>, body |-> <<"x">>,
               userId |-> 9, tags |-> <<>>, reactions |-> 0],
              [id |-> 7, title |-> <<"a">>, body |-> <<"y">>,
               userId |-> 8, tags |-> <<Food, <<"b">>>>,
               reactions |-> 3] >>),
    Answer(<< [id |-> 7, title |-> <<"a">>, body |-> <<"y">>,
               userId |-> 8, tags |-> <<Food, <<"b">>>>,
               reactions |-> 3] >>) }
    \cup FailedResponses

\* searchExternalPosts: the mapped posts of the answer; the catch block
\* returns [].
searchExternalPosts(response, now) ==
  IF TryFails(response) THEN <<>>
  ELSE [i \in 1..Len(response.posts) |->
          mapExternalPostToSchema(response.posts[i], now)]

----------------------------------------------------------------------------
(* HomePage: searching.  posts is a new array at every render, so the      *)
(* effect runs after every render: it may run at any time.                 *)

MaxSearchCalls == 2

\* Data of the ['/api/posts'] query once it has answered.
HomeLocalPostLists ==
  { << [id |-> 1, title |-> <<"b">>, content |-> <<"x">>, authorId |-> 1,
        category |-> Food, createdAt |-> 1],
       [id |-> 2, title |-> <<"A">>, content |-> <<"y">>, authorId |-> 1,
        createdAt |-> 2] >> }

HomeQueries == { <<>>, <<"x">>, <<"a">> }

HomeSortKeys == {"latest", "title_asc"}

HomeCategories == {All, Food}

\* The ['/api/posts'] query answers.
InternalPostsArrive(list) ==
  /\ internalPosts = <<>>
  /\ internalPosts' = list
  /\ last' = [op |-> "internalPosts", arg |-> 0, ret |-> Undefined]
  /\ UNCHANGED <<storeVars, clock, inflight, log, externalPosts,
                 searchQuery, selectedCategory, sortBy, filteredPosts,
                 searches, searchCalls>>

\* onCategoryChange = setSelectedCategory; the external-posts query of the
\* new key has no data until it answers.
SetSelectedCategory(category) ==
  /\ selectedCategory' = category
  /\ externalPosts' = <<>>
  /\ last' = [op |-> "setSelectedCategory", arg |-> 0, ret |-> Undefined]
  /\ UNCHANGED <<storeVars, clock, inflight, log, internalPosts,
                 searchQuery, sortBy, filteredPosts, searches, searchCalls>>

\* onSortChange = setSortBy
SetSortBy(key) ==
  /\ sortBy' = key
  /\ last' = [op |-> "setSortBy", arg |-> 0, ret |-> Undefined]
  /\ UNCHANGED <<storeVars, clock, inflight, log, internalPosts,
                 externalPosts, searchQuery, selectedCategory,
                 filteredPosts, searches, searchCalls>>

\* handleSearch up to its await: setSearchQuery(query) and, for a query
\* that is not empty, the call of searchExternalPosts(query).
HandleSearch(query) ==
  /\ searchCalls < MaxSearchCalls
  /\ searchCalls' = searchCalls + 1
  /\ searchQuery' = query
  /\ searches' = IF Len(query) > 0
                 THEN searches \cup {[call |-> searchCalls + 1,
                                      query |-> query]}
                 ELSE searches
  /\ last' = [op |-> "handleSearch", arg |-> searchCalls + 1,
              ret |-> Undefined]
  /\ UNCHANGED <<storeVars, clock, inflight, log, internalPosts,
                 externalPosts, selectedCategory, sortBy, filteredPosts>>

\* handleSearch after its await: setFilteredPosts(results).
SearchResolves(search, response) ==
  LET results == searchExternalPosts(response, clock)
  IN /\ search \in searches
     /\ searches' = searches \ {search}
     /\ filteredPosts' = results
     /\ last' = [op |-> "searchResolved", arg |-> search.call,
                 ret |-> [list |-> results, query |-> search.query,
                          from |-> response.posts, response |-> response]]
     /\ UNCHANGED <<storeVars, clock, inflight, log, internalPosts,
                    externalPosts, searchQuery, selectedCategory, sortBy,
                    searchCalls>>

NextHome ==
  \/ \E list \in HomeLocalPostLists : InternalPostsArrive(list)
  \/ \E category \in HomeCategories : SetSelectedCategory(category)
  \/ \E key \in HomeSortKeys : SetSortBy(key)
  \/ \E query \in HomeQueries : HandleSearch(query)
  \/ \E search \in searches, response \in SearchResponses :
        SearchResolves(search, response)
  \/ Effect

SpecHome == Init /\ [][NextHome]_vars

\* The displayed posts are the results of the last search resolved.
SearchResultsDisplayed ==
  last.op = "searchResolved" /\ filteredPosts = last.ret.list

\* C15: the result of an older external search that is still in flight
\* never overwrites the displayed posts once a newer query, or the
\* clearing of the query, has taken effect: search results are displayed
\* only for the newest handleSearch call and the query it set.
C15_StaleSearchIsDiscarded ==
  (SearchResultsDisplayed /\ filteredPosts # <<>>) =>
    /\ last.arg = searchCalls
    /\ last.ret.query = searchQuery

\* A step in which a search resolves.
ResolveStep == last'.op = "searchResolved" /\ last' # last

\* C16: when the external search of a non-empty query resolves, the
\* displayed posts become exactly the mapped external results in the
\* source's order, with no category filter and no sort applied, and they
\* stay the displayed posts as long as posts, category, query and sort key
\* do not change.
C16_SearchResultsStayDisplayed ==
  [][/\ ResolveStep =>
          /\ filteredPosts' = last'.ret.list
          /\ Len(filteredPosts') = Len(last'.ret.from)
          /\ \A i \in 1..Len(filteredPosts') :
               filteredPosts'[i]["id"] = last'.ret.from[i].id
     /\ (/\ SearchResultsDisplayed
         /\ UNCHANGED <<internalPosts, externalPosts, selectedCategory,
                        searchQuery, sortBy>>)
          => filteredPosts' = filteredPosts
    ]_vars

----------------------------------------------------------------------------
(* Sorting by title. *)

\* No two of the posts have titles that localeCompare takes as equal.
DistinctTitles(list) ==
  \A i, j \in 1..Len(list) :
    i # j => localeCompare(list[i]["title"], list[j]["title"]) # 0

\* C21 as stated: for any post set, the output for sortBy = title_desc is
\* exactly the reverse of the output for sortBy = title_asc.
C21_TitleDescIsReverseOfTitleAsc ==
  LET asc == FilterAndSort(Posts, selectedCategory, searchQuery,
                           "title_asc").filteredPosts
      desc == FilterAndSort(Posts, selectedCategory, searchQuery,
                            "title_desc").filteredPosts
  IN /\ desc = Reverse(asc)
     /\ (EffectRan /\ sortBy = "title_desc") => filteredPosts = Reverse(asc)

\* C21 amended: when no two displayed posts have equal titles, the output
\* for sortBy = title_desc is exactly the reverse of the output for
\* sortBy = title_asc, and two local posts of different titles are
\* displayed under title_desc with the later title first; posts of equal
\* titles keep their input order under both keys.
C21_TitleDescIsReverseWhenTitlesDiffer ==
  LET asc == FilterAndSort(Posts, selectedCategory, searchQuery,
                           "title_asc").filteredPosts
      desc == FilterAndSort(Posts, selectedCategory, searchQuery,
                            "title_desc").filteredPosts
      all == Posts
      KeepsInputOrderOfEqualTitles(out) ==
        \A i, j \in 1..Len(out) :
          (i < j /\ localeCompare(out[i]["title"], out[j]["title"]) = 0)
            => PositionIn(all, out[i]) < PositionIn(all, out[j])
  IN /\ DistinctTitles(asc) =>
          /\ desc = Reverse(asc)
          /\ (EffectRan /\ sortBy = "title_desc") =>
               filteredPosts = Reverse(asc)
     /\ KeepsInputOrderOfEqualTitles(asc)
     /\ KeepsInputOrderOfEqualTitles(desc)
     /\ (/\ EffectRan /\ sortBy = "title_desc"
         /\ selectedCategory = All /\ searchQuery = <<>>
         /\ externalPosts = <<>> /\ Len(internalPosts) = 2
         /\ localeCompare(internalPosts[1]["title"],
                          internalPosts[2]["title"]) < 0) =>
          filteredPosts = <<internalPosts[2], internalPosts[1]>>

\* C21 witness: two local posts titled "A" and "b", given in that order,
\* are displayed under title_desc as ["b", "A"].
C21_Witness ==
  /\ EffectRan /\ sortBy = "title_desc"
  /\ selectedCategory = All /\ searchQuery = <<>>
  /\ externalPosts = <<>> /\ Len(internalPosts) = 2
  /\ internalPosts[1]["title"] = <<"A">>
  /\ internalPosts[2]["title"] = <<"b">>
  /\ filteredPosts = <<internalPosts[2], internalPosts[1]>>

\* C21, the case the amendment leaves out, reached: two displayed posts
\* have the same title and title_desc shows them in their input order.
C21_WitnessEqualTitles ==
  /\ EffectRan /\ sortBy = "title_desc"
  /\ Len(filteredPosts) = 2
  /\ filteredPosts[1]["title"] = filteredPosts[2]["title"]
  /\ filteredPosts = Posts

----------------------------------------------------------------------------
(* Fetching external posts. *)

\* fetchExternalPosts: the mapped posts of the answer; the catch block
\* returns [].
fetchExternalPosts(response, now) ==
  IF TryFails(response) THEN <<>>
  ELSE [i \in 1..Len(response.posts) |->
          mapExternalPostToSchema(response.posts[i], now)]

\* Array.prototype.slice(0, end)
SliceTo(list, end) ==
  SubSeq(list, 1, IF end < Len(list) THEN (IF end < 0 THEN 0 ELSE end)
                  ELSE Len(list))

KnownCategories ==
      { <<"t", "e", "c", "h", "n", "o", "l", "o", "g", "y">>,
        <<"t", "r", "a", "v", "e", "l">>, <<"f", "o", "o", "d">>,
        <<"l", "i", "f", "e", "s", "t", "y", "l", "e">>,
        <<"h", "e", "a", "l", "t", "h">> }

\* categoryToTags of the branch of the known categories
categoryToTags(category) ==
  CASE category = <<"t", "e", "c", "h", "n", "o", "l", "o", "g", "y">> ->
      { <<"t", "e", "c", "h">>, <<"d", "i", "g", "i", "t", "a", "l">>,
        <<"p", "r", "o", "g", "r", "a", "m", "m", "i", "n", "g">>,
        <<"c", "o", "m", "p", "u", "t", "e", "r">>,
        <<"t", "e", "c", "h", "n", "o", "l", "o", "g", "y">>,
        <<"s", "o", "f", "t", "w", "a", "r", "e">>,
        <<"h", "a", "r", "d", "w", "a", "r", "e">>, <<"a", "p", "p">>,
        <<"i", "n", "n", "o", "v", "a", "t", "i", "o", "n">> }
    [] category = <<"t", "r", "a", "v", "e", "l">> ->
      { <<"t", "r", "a", "v", "e", "l">>, <<"t", "r", "i", "p">>,
        <<"a", "d", "v", "e", "n", "t", "u", "r", "e">>,
        <<"v", "a", "c", "a", "t", "i", "o", "n">>,
        <<"j", "o", "u", "r", "n", "e", "y">>,
        <<"t", "o", "u", "r", "i", "s", "m">>,
        <<"d", "e", "s", "t", "i", "n", "a", "t", "i", "o", "n">>,
        <<"e", "x", "p", "l", "o", "r", "e">>, <<"w", "o", "r", "l", "d">> }
    [] category = <<"f", "o", "o", "d">> ->
      { <<"f", "o", "o", "d">>, <<"c", "o", "o", "k", "i", "n", "g">>,
        <<"r", "e", "c", "i", "p", "e">>,
        <<"c", "u", "i", "s", "i", "n", "e">>, <<"m", "e", "a", "l">>,
        <<"r", "e", "s", "t", "a", "u", "r", "a", "n", "t">>,
        <<"d", "i", "n", "n", "e", "r">>, <<"l", "u", "n", "c", "h">>,
        <<"b", "r", "e", "a", "k", "f", "a", "s", "t">>, <<"e", "a", "t">> }
    [] category = <<"l", "i", "f", "e", "s", "t", "y", "l", "e">> ->
      { <<"l", "i", "f", "e", "s", "t", "y", "l", "e">>,
        <<"l", "i", "f", "e">>, <<"l", "i", "v", "i", "n", "g">>,
        <<"f", "a", "m", "i", "l", "y">>, <<"h", "o", "m", "e">>,
        <<"p", "e", "r", "s", "o", "n", "a", "l">>,
        <<"s", "t", "y", "l", "e">>, <<"t", "r", "e", "n", "d", "s">>,
        <<"f", "a", "s", "h", "i", "o", "n">> }
    [] category = <<"h", "e", "a", "l", "t", "h">> ->
      { <<"h", "e", "a", "l", "t", "h">>,
        <<"f", "i", "t", "n", "e", "s", "s">>,
        <<"w", "e", "l", "l", "n", "e", "s", "s">>,
        <<"e", "x", "e", "r", "c", "i", "s", "e">>,
        <<"m", "e", "d", "i", "c", "a", "l">>,
        <<"n", "u", "t", "r", "i", "t", "i", "o", "n">>,
        <<"w", "o", "r", "k", "o", "u", "t">>, <<"d", "i", "e", "t">>,
        <<"m", "e", "n", "t", "a", "l">> }
    [] OTHER -> {category}

\* categoryKeywords
categoryKeywords(category) ==
  CASE category = <<"t", "e", "c", "h", "n", "o", "l", "o", "g", "y">> ->
      { <<"n", "e", "w">>, <<"d", "i", "g", "i", "t", "a", "l">>,
        <<"f", "u", "t", "u", "r", "e">>, <<"s", "m", "a", "r", "t">>,
        <<"d", "e", "v", "i", "c", "e">>, <<"o", "n", "l", "i", "n", "e">>,
        <<"v", "i", "r", "t", "u", "a", "l">>,
        <<"p", "r", "o", "d", "u", "c", "t">> }
    [] category = <<"t", "r", "a", "v", "e", "l">> ->
      { <<"v", "i", "s", "i", "t">>, <<"p", "l", "a", "c", "e">>,
        <<"c", "o", "u", "n", "t", "r", "y">>, <<"h", "o", "t", "e", "l">>,
        <<"e", "x", "p", "e", "r", "i", "e", "n", "c", "e">>,
        <<"f", "l", "i", "g", "h", "t">>, <<"t", "o", "u", "r">>,
        <<"h", "o", "l", "i", "d", "a", "y">> }
    [] category = <<"f", "o", "o", "d">> ->
      { <<"d", "e", "l", "i", "c", "i", "o", "u", "s">>,
        <<"t", "a", "s", "t", "y">>, <<"r", "e", "c", "i", "p", "e">>,
        <<"c", "o", "o", "k">>,
        <<"r", "e", "s", "t", "a", "u", "r", "a", "n", "t">>,
        <<"c", "h", "e", "f">>,
        <<"i", "n", "g", "r", "e", "d", "i", "e", "n", "t", "s">>,
        <<"f", "l", "a", "v", "o", "r">> }
    [] category = <<"l", "i", "f", "e", "s", "t", "y", "l", "e">> ->
      { <<"t", "r", "e", "n", "d">>, <<"m", "o", "d", "e", "r", "n">>,
        <<"s", "t", "y", "l", "e">>, <<"d", "e", "s", "i", "g", "n">>,
        <<"f", "a", "s", "h", "i", "o", "n">>, <<"h", "o", "m", "e">>,
        <<"d", "e", "c", "o", "r", "a", "t", "i", "o", "n">>,
        <<"l", "i", "v", "i", "n", "g">> }
    [] category = <<"h", "e", "a", "l", "t", "h">> ->
      { <<"h", "e", "a", "l", "t", "h", "y">>,
        <<"e", "x", "e", "r", "c", "i", "s", "e">>,
        <<"f", "i", "t", "n", "e", "s", "s">>, <<"d", "i", "e", "t">>,
        <<"n", "u", "t", "r", "i", "t", "i", "o", "n">>,
        <<"w", "e", "i", "g", "h", "t">>,
        <<"w", "e", "l", "l", "n", "e", "s", "s">>, <<"b", "o", "d", "y">> }
    [] OTHER -> {}

\* categoryToTags of the fallback branch: only 'writing' has an entry.
fallbackCategoryToTags(category) ==
  IF category = <<"w", "r", "i", "t", "i", "n", "g">>
  THEN
      { <<"w", "r", "i", "t", "i", "n", "g">>,
        <<"w", "r", "i", "t", "e", "r">>, <<"b", "l", "o", "g">>,
        <<"c", "o", "n", "t", "e", "n", "t">>,
        <<"a", "u", "t", "h", "o", "r">>,
        <<"b", "l", "o", "g", "g", "i", "n", "g">>,
        <<"s", "t", "o", "r", "y">>, <<"f", "i", "c", "t", "i", "o", "n">> }
  ELSE {category}

\* tagMatch: some tag, lower-cased, includes one of the matching tags.
tagMatch(post, matchingTags) ==
  \E i \in 1..Len(post.tags) :
    \E matchTag \in matchingTags : includes(toLowerCase(post.tags[i]), matchTag)

\* contentMatch: the lower-cased title or body includes a keyword.
contentMatch(post, matchingKeywords) ==
  \E keyword \in matchingKeywords :
    \/ includes(toLowerCase(post.title), keyword)
    \/ includes(toLowerCase(post.body), keyword)

\* The branch of the known categories, before the mapping to Post; matched
\* holds the positions of the posts that the filter keeps.  An
\* element of data (data.posts) is the object at its position, so its
\* position is its identity (ref); every object that a map callback builds
\* with { ...post, tags } is a new object with a ref of its own.
\* Array.prototype.includes compares identities.
\* mutant: the padding is added whatever the number of matches.
KnownCategoryPosts_AlwaysPads(category, data) ==
  LET lower == toLowerCase(category)
      n == Len(data)
      matched ==
        SelectSeq([i \in 1..n |-> i], LAMBDA i :
          \/ tagMatch(data[i], categoryToTags(lower))
          \/ contentMatch(data[i], categoryKeywords(lower)))
      filtered ==
        [k \in 1..Len(matched) |->
           [ref |-> n + k,
            post |-> [data[matched[k]] EXCEPT !.tags =
                        <<lower>> \o SelectSeq(@, LAMBDA tag :
                                                 toLowerCase(tag) # lower)]]]
      notIncluded ==
        SelectSeq([i \in 1..n |-> i], LAMBDA i :
          ~ \E k \in 1..Len(filtered) : filtered[k].ref = i)
      picked == SliceTo(notIncluded, 10 - Len(filtered))
      additionalPosts ==
        [k \in 1..Len(picked) |->
           [ref |-> n + Len(filtered) + k,
            post |-> [data[picked[k]] EXCEPT !.tags = <<lower>> \o @]]]
      all == filtered \o additionalPosts
  IN [k \in 1..Len(all) |-> all[k].post]

KnownCategoryPosts(category, data) ==
  LET lower == toLowerCase(category)
      n == Len(data)
      matched ==
        SelectSeq([i \in 1..n |-> i], LAMBDA i :
          \/ tagMatch(data[i], categoryToTags(lower))
          \/ contentMatch(data[i], categoryKeywords(lower)))
      filtered ==
        [k \in 1..Len(matched) |->
           [ref |-> n + k,
            post |-> [data[matched[k]] EXCEPT !.tags =
                        <<lower>> \o SelectSeq(@, LAMBDA tag :
                                                 toLowerCase(tag) # lower)]]]
      notIncluded ==
        SelectSeq([i \in 1..n |-> i], LAMBDA i :
          ~ \E k \in 1..Len(filtered) : filtered[k].ref = i)
      picked == SliceTo(notIncluded, 10 - Len(filtered))
      additionalPosts ==
        [k \in 1..Len(picked) |->
           [ref |-> n + Len(filtered) + k,
            post |-> [data[picked[k]] EXCEPT !.tags = <<lower>> \o @]]]
      all == IF Len(filtered) < 5 THEN filtered \o additionalPosts
             ELSE filtered
  IN [k \in 1..Len(all) |-> all[k].post]

\* The fallback branch, before the mapping to Post.
\* mutant: a tag must be equal to a matching tag.
FallbackCategoryPosts_ExactTag(category, data) ==
  LET lower == toLowerCase(category)
      matched ==
        SelectSeq([i \in 1..Len(data) |-> i], LAMBDA i :
          \E t \in 1..Len(data[i].tags) :
            toLowerCase(data[i].tags[t]) \in fallbackCategoryToTags(lower))
  IN IF Len(matched) = 0 THEN SliceTo(data, 6)
     ELSE [k \in 1..Len(matched) |-> data[matched[k]]]

\* mutant: with no match the result is padded as for a known category.
FallbackCategoryPosts_TenWhenNoMatch(category, data) ==
  LET lower == toLowerCase(category)
      matched ==
        SelectSeq([i \in 1..Len(data) |-> i], LAMBDA i :
          tagMatch(data[i], fallbackCategoryToTags(lower)))
  IN IF Len(matched) = 0 THEN SliceTo(data, 10)
     ELSE [k \in 1..Len(matched) |-> data[matched[k]]]

FallbackCategoryPosts(category, data) ==
  LET lower == toLowerCase(category)
      matched ==
        SelectSeq([i \in 1..Len(data) |-> i], LAMBDA i :
          tagMatch(data[i], fallbackCategoryToTags(lower)))
  IN IF Len(matched) = 0 THEN SliceTo(data, 6)
     ELSE [k \in 1..Len(matched) |-> data[matched[k]]]

\* The posts mapped to the schema, with the category forced to the
\* lower-cased requested one.
MapWithCategory(list, category, now) ==
  [k \in 1..Len(list) |->
     [mapExternalPostToSchema(list[k], now)
        EXCEPT !.category = toLowerCase(category)]]

\* fetchExternalPostsByCategory; the catch block returns [].
fetchExternalPostsByCategory(category, response, now) ==
  IF category = All THEN fetchExternalPosts(response, now)
  ELSE IF TryFails(response) THEN <<>>
  ELSE IF toLowerCase(category) \in KnownCategories
  THEN MapWithCategory(KnownCategoryPosts(category, response.posts),
                       category, now)
  ELSE MapWithCategory(FallbackCategoryPosts(category, response.posts),
                       category, now)

----------------------------------------------------------------------------
(* Calls of the fetch functions.  The external API answers with up to      *)
(* MaxSourceLen posts.                                                     *)

MaxSourceLen == 11

Writing == <<"w", "r", "i", "t", "i", "n", "g">>

Art == <<"a", "r", "t">>

\* What the posts of a source are about.
Themes == {"food", "writing", "art"}

\* The tags of the k-th kind of post of a theme, and of a post of no theme.
ThemeTags(theme, k) ==
  CASE theme = "food" ->
         << << <<"S", "e", "a", "f", "o", "o", "d">>, <<"x">> >>,
            << <<"m", "i", "s", "c">> >>,
            << <<"x">>, <<"F", "o", "o", "d">>, <<"f", "o", "o", "d">> >> >>[k]
    [] theme = "writing" ->
         << << <<"W", "r", "i", "t", "e", "r", "s">> >>,
            << <<"w", "r", "i", "t", "i", "n", "g">> >>,
            << <<"h", "i", "s", "t", "o", "r", "y">> >> >>[k]
    [] theme = "art" ->
         << << <<"p", "a", "r", "t", "y">> >>, << <<"a", "r", "t">> >>, << <<"A", "r", "t">>, <<"x">> >> >>[k]
    [] OTHER ->
         << <<>>, << <<"m", "i", "s", "c">> >>, << <<>>, <<"x">> >> >>[k]

\* The post at position i of a source (an ExternalBlogPost): when onTheme,
\* it carries a tag of the theme, or for food a word of the theme in its body.
SourcePost(i, theme, onTheme) ==
  LET k == (i % 3) + 1
  IN [id |-> i,
      title |-> <<"N", "o", "t", "e">>,
      body |-> IF onTheme /\ theme = "food" /\ k = 2
               THEN <<"T", "a", "s", "t", "y", " ", "s", "o", "u", "p">>
               ELSE <<"t", "e", "x", "t">>,
      userId |-> 20 + i,
      tags |-> ThemeTags(IF onTheme THEN theme ELSE "none", k),
      reactions |-> 0]

\* A source of n posts of which q are on the theme: the first q or the
\* last q.
Source(n, q, placement, theme) ==
  [i \in 1..n |->
     SourcePost(i, theme, IF placement = "first" THEN i <= q ELSE i > n - q)]

Sources ==
  { Source(n, q, placement, theme) :
      n \in 0..MaxSourceLen, q \in 0..MaxSourceLen,
      placement \in {"first", "last"}, theme \in Themes }

\* The example of a source post: {id: 7, title: "T", body: "B", userId: 3,
\* tags: ["tech", "x"], reactions: 5}
ExamplePost ==
  [id |-> 7, title |-> <<"T">>, body |-> <<"B">>, userId |-> 3,
   tags |-> <<<<"t", "e", "c", "h">>, <<"x">>>>, reactions |-> 5]

FetchResponses ==
  { Answer(source) : source \in Sources \cup {<<ExamplePost>>} }
    \cup FailedResponses

\* The categories the functions are called with: known ones, 'writing', and
\* a label that is none of the page's categories.
FetchCategories == {Food, <<"F", "o", "o", "d">>, Writing, Art, All}

\* The calls of the fetch functions, with what the API answers to each.
FetchCalls ==
  { [fn |-> "fetchExternalPosts", category |-> All, response |-> response] :
      response \in FetchResponses }
  \cup
  { [fn |-> "fetchExternalPostsByCategory", category |-> category,
     response |-> response] :
      category \in FetchCategories, response \in FetchResponses }
  \cup
  { [fn |-> "searchExternalPosts", category |-> All, response |-> response] :
      response \in FetchResponses }

\* One of the functions has been called and has not returned yet.
InitFetch ==
  /\ users = <<[k |-> 1, v |-> AdminUser]>>
  /\ posts = <<>>
  /\ comments = <<>>
  /\ currentUserId = 2
  /\ currentPostId = 1
  /\ currentCommentId = 1
  /\ clock = 0
  /\ inflight = {}
  /\ \E call \in FetchCalls :
       last = [op |-> "call", arg |-> call, ret |-> Undefined]
  /\ log = <<>>
  /\ HomeMount

\* fetchExternalPosts(limit, skip) returns.
FetchExternalPostsReturns ==
  /\ last.op = "call"
  /\ last.arg.fn = "fetchExternalPosts"
  /\ last' = [op |-> "fetchExternalPosts", arg |-> last.arg,
              ret |-> [list |->
                fetchExternalPosts(last.arg.response, clock)]]
  /\ UNCHANGED <<storeVars, clock, inflight, log, homeVars>>

\* fetchExternalPostsByCategory(category) returns.
FetchExternalPostsByCategoryReturns ==
  /\ last.op = "call"
  /\ last.arg.fn = "fetchExternalPostsByCategory"
  /\ last' = [op |-> "fetchExternalPostsByCategory", arg |-> last.arg,
              ret |-> [list |->
                fetchExternalPostsByCategory(last.arg.category,
                                             last.arg.response, clock)]]
  /\ UNCHANGED <<storeVars, clock, inflight, log, homeVars>>

\* searchExternalPosts(query) returns.
SearchExternalPostsReturns ==
  /\ last.op = "call"
  /\ last.arg.fn = "searchExternalPosts"
  /\ last' = [op |-> "searchExternalPosts", arg |-> last.arg,
              ret |-> [list |->
                searchExternalPosts(last.arg.response, clock)]]
  /\ UNCHANGED <<storeVars, clock, inflight, log, homeVars>>

NextFetch ==
  \/ FetchExternalPostsReturns
  \/ FetchExternalPostsByCategoryReturns
  \/ SearchExternalPostsReturns

SpecFetch == InitFetch /\ [][NextFetch]_vars

\* The call of a fetch function that has just returned.
Fetched(op) == last.op = op

\* String.prototype.split(','), for tags without commas in them.
RECURSIVE SplitCommas(_)
SplitCommas(s) ==
  IF \A i \in 1..Len(s) : s[i] # ","
  THEN <<s>>
  ELSE LET k == CHOOSE i \in 1..Len(s) :
                  s[i] = "," /\ \A j \in 1..(i - 1) : s[j] # ","
       IN <<SubSeq(s, 1, k - 1)>> \o SplitCommas(SubSeq(s, k + 1, Len(s)))

\* The tag list that a mapped post's tags string was joined from.
TagList(post) == IF post.tags = <<>> THEN <<>> ELSE SplitCommas(post.tags)

\* A function that maps the posts of the answer without selecting among
\* them has returned them.
MappedAnswer ==
  /\ last.op \in {"fetchExternalPosts", "searchExternalPosts"}
  /\ last.arg.response = Answer(last.arg.response.posts)

\* What C22 says of every field but the category.
MapsFields(source, post) ==
  /\ post.id = source.id
  /\ post.title = source.title
  /\ post.content = source.body
  /\ post.authorId = source.userId
  /\ IF source.tags = <<>> THEN post.tags = <<>>
     ELSE SplitCommas(post.tags) = source.tags
  /\ IsSubstring(Decimal(source.id), post.imageUrl)
  /\ post.published = TRUE

\* C22 as stated: mapExternalPostToSchema maps every external post to a Post
\* with the same id and title, content = body, authorId = userId, category
\* equal to the first tag (or "Uncategorized" when the tag list is empty),
\* tags equal to the tag list joined by commas, an imageUrl that contains
\* the id, and published = true.
C22_MapsEveryExternalPost ==
  MappedAnswer =>
    /\ Len(last.ret.list) = Len(last.arg.response.posts)
    /\ \A i \in 1..Len(last.ret.list) :
         LET source == last.arg.response.posts[i]
             post == last.ret.list[i]
         IN /\ MapsFields(source, post)
            /\ post.category = IF source.tags = <<>> THEN Uncategorized
                               ELSE source.tags[1]

\* C22 amended: as stated, except that the category is "Uncategorized" also
\* when the first tag is the empty string; it is the first tag when that
\* tag is not empty.
C22_MapsEveryExternalPostEmptyFirstTag ==
  MappedAnswer =>
    /\ Len(last.ret.list) = Len(last.arg.response.posts)
    /\ \A i \in 1..Len(last.ret.list) :
         LET source == last.arg.response.posts[i]
             post == last.ret.list[i]
         IN /\ MapsFields(source, post)
            /\ post.category =
                 IF source.tags = <<>> THEN Uncategorized
                 ELSE IF source.tags[1] = <<>> THEN Uncategorized
                 ELSE source.tags[1]

\* C22 witness: the example {id: 7, title: "T", body: "B", userId: 3,
\* tags: ["tech", "x"], reactions: 5} has been mapped.
C22_Witness ==
  /\ last.op = "fetchExternalPosts"
  /\ last.arg.response = Answer(<<ExamplePost>>)
  /\ Len(last.ret.list) = 1
  /\ last.ret.list[1].content = <<"B">>
  /\ last.ret.list[1].authorId = 3
  /\ last.ret.list[1].category = <<"t", "e", "c", "h">>
  /\ last.ret.list[1].tags = <<"t", "e", "c", "h", ",", "x">>
  /\ \E i \in 1..Len(last.ret.list[1].imageUrl) :
       last.ret.list[1].imageUrl[i] = "7"
  /\ last.ret.list[1].published

\* C22, posts without tags and posts whose first tag is empty have been
\* mapped to "Uncategorized", and an id of two digits is in its imageUrl.
C22_WitnessUncategorized ==
  /\ MappedAnswer
  /\ \E i, j, k \in 1..Len(last.ret.list) :
       /\ last.arg.response.posts[i].tags = <<>>
       /\ last.ret.list[i].category = Uncategorized
       /\ last.arg.response.posts[j].tags # <<>>
       /\ last.arg.response.posts[j].tags[1] = <<>>
       /\ last.ret.list[j].category = Uncategorized
       /\ last.ret.list[k].id = 10
       /\ IsSubstring(<<"1", "0">>, last.ret.list[k].imageUrl)

----------------------------------------------------------------------------
(* Fetching by category. *)

\* fetchExternalPostsByCategory has returned for an answer of the API that
\* is OK and parsed, and a category other than 'all'.
CategoryFetched ==
  /\ last.op = "fetchExternalPostsByCategory"
  /\ last.arg.response = Answer(last.arg.response.posts)
  /\ last.arg.category # All

RequestedCategory == toLowerCase(last.arg.category)

SourcePosts == last.arg.response.posts

KnownCategoryFetched ==
  CategoryFetched /\ RequestedCategory \in KnownCategories

FallbackCategoryFetched ==
  CategoryFetched /\ RequestedCategory \notin KnownCategories

\* A source post qualifies for a known category: some tag contains a
\* tag-keyword of the category, or the title or body contains a
\* content-keyword.
Qualifies(post, category) ==
  \/ \E i \in 1..Len(post.tags) : \E word \in categoryToTags(category) :
       IsSubstring(word, toLowerCase(post.tags[i]))
  \/ \E word \in categoryKeywords(category) :
       \/ IsSubstring(word, toLowerCase(post.title))
       \/ IsSubstring(word, toLowerCase(post.body))

QualifyingPosts ==
  SelectSeq(SourcePosts, LAMBDA post : Qualifies(post, RequestedCategory))

\* The ids of the posts of a list, in its order.
Ids(list) == [i \in 1..Len(list) |-> list[i].id]

\* C23: when at least 5 source posts qualify for a known category,
\* fetchExternalPostsByCategory returns at least 5 posts, one per
\* qualifying source post and no others, and every returned post has
\* category equal to the lower-cased requested category.
C23_FiveQualifyingAreReturnedAlone ==
  (KnownCategoryFetched /\ Len(QualifyingPosts) >= 5) =>
    /\ Len(last.ret.list) >= 5
    /\ Ids(last.ret.list) = Ids(QualifyingPosts)
    /\ \A i \in 1..Len(last.ret.list) :
         last.ret.list[i].category = RequestedCategory

\* C23 witness: 'food' requested from a source of which 5 posts qualify,
\* some by a tag and some by the body, and other posts do not.
C23_Witness ==
  /\ KnownCategoryFetched
  /\ last.arg.category = Food
  /\ Len(QualifyingPosts) = 5
  /\ Len(SourcePosts) > 5
  /\ Len(last.ret.list) = 5
  /\ \E i, j \in 1..5 :
       /\ QualifyingPosts[i].body =
            <<"T", "a", "s", "t", "y", " ", "s", "o", "u", "p">>
       /\ QualifyingPosts[j].tags[1] = <<"S", "e", "a", "f", "o", "o", "d">>

\* C23, the category requested in capitals and every source post
\* qualifying.
C23_WitnessCapitals ==
  /\ KnownCategoryFetched
  /\ last.arg.category = <<"F", "o", "o", "d">>
  /\ Len(QualifyingPosts) = Len(SourcePosts)
  /\ Len(last.ret.list) > 10
  /\ last.ret.list[1].category = Food

\* A source post matches a category of the fallback branch: one of its
\* tags, lower-cased, contains a matching tag of the category.
FallbackMatches(post, category) ==
  \E i \in 1..Len(post.tags) : \E word \in fallbackCategoryToTags(category) :
    IsSubstring(word, toLowerCase(post.tags[i]))

\* No post of the source matches the requested category.
NoneMatches ==
  \A i \in 1..Len(SourcePosts) :
    IF RequestedCategory \in KnownCategories
    THEN ~Qualifies(SourcePosts[i], RequestedCategory)
    ELSE ~FallbackMatches(SourcePosts[i], RequestedCategory)

\* C24 as stated: requesting a category, known or fallback, against a
\* source of at least 6 posts of which none matches the category returns
\* exactly 6 posts, each with category equal to the requested category.
C24_SixPostsWhenNoneMatches ==
  (CategoryFetched /\ Len(SourcePosts) >= 6 /\ NoneMatches) =>
    /\ Len(last.ret.list) = 6
    /\ \A i \in 1..Len(last.ret.list) :
         last.ret.list[i].category = RequestedCategory

\* C24 amended: against a source of at least 6 posts of which none matches,
\* a category of the fallback branch returns exactly the first 6 source
\* posts, and a known category returns the first 10 source posts, or all of
\* them if the source has fewer than 10; each returned post has category
\* equal to the lower-cased requested category.
C24_SixForFallbackTenForKnown ==
  (CategoryFetched /\ Len(SourcePosts) >= 6 /\ NoneMatches) =>
    /\ FallbackCategoryFetched =>
         Ids(last.ret.list) = Ids(SubSeq(SourcePosts, 1, 6))
    /\ KnownCategoryFetched =>
         Ids(last.ret.list) =
           Ids(SubSeq(SourcePosts, 1,
                      IF Len(SourcePosts) < 10 THEN Len(SourcePosts) ELSE 10))
    /\ \A i \in 1..Len(last.ret.list) :
         last.ret.list[i].category = RequestedCategory

\* C24 witness: 'writing' requested from a source of more than 6 posts of
\* which none matches: 6 posts are returned.
C24_Witness ==
  /\ FallbackCategoryFetched
  /\ last.arg.category = Writing
  /\ Len(SourcePosts) > 6
  /\ NoneMatches
  /\ Len(last.ret.list) = 6
  /\ last.ret.list[6].category = Writing

\* C24, 'food' requested from a source of more than 10 posts of which none
\* matches: 10 posts are returned.
C24_WitnessKnown ==
  /\ KnownCategoryFetched
  /\ last.arg.category = Food
  /\ Len(SourcePosts) > 10
  /\ NoneMatches
  /\ Len(last.ret.list) = 10
  /\ last.ret.list[10].category = Food

\* The source posts that do not qualify for the requested category.
OtherPosts ==
  SelectSeq(SourcePosts, LAMBDA post : ~Qualifies(post, RequestedCategory))

\* C25: when fewer than 5 source posts qualify for a known category, the
\* result is the qualifying posts followed by source posts that were not
\* already included, up to a total of 10 (or every source post if the
\* source has fewer than 10), so no source post id appears twice in the
\* result.
C25_PaddingExcludesIncludedPosts ==
  (KnownCategoryFetched /\ Len(QualifyingPosts) < 5) =>
    LET total == IF Len(SourcePosts) < 10 THEN Len(SourcePosts) ELSE 10
    IN /\ Ids(last.ret.list) =
            Ids(QualifyingPosts)
              \o Ids(SubSeq(OtherPosts, 1, total - Len(QualifyingPosts)))
       /\ \A i, j \in 1..Len(last.ret.list) :
            i # j => last.ret.list[i].id # last.ret.list[j].id

\* The source posts of which a tag, lower-cased, is equal to the requested
\* category.
ExactTagPosts ==
  SelectSeq(SourcePosts, LAMBDA post :
    \E i \in 1..Len(post.tags) : toLowerCase(post.tags[i]) = RequestedCategory)

\* The source posts of which a tag, lower-cased, contains a matching tag of
\* the requested category.
SubstringTagPosts ==
  SelectSeq(SourcePosts, LAMBDA post :
    FallbackMatches(post, RequestedCategory))

\* C26 as stated: for a category without predefined keyword sets (the
\* fallback branch), a source post is selected only if one of its tags is
\* exactly equal to the requested category; a post whose tags merely
\* contain the category or a related keyword as a substring is not
\* selected.  (When nothing is selected the first 6 source posts are
\* returned.)
C26_FallbackSelectsByExactTag ==
  FallbackCategoryFetched =>
    Ids(last.ret.list) =
      IF ExactTagPosts # <<>> THEN Ids(ExactTagPosts)
      ELSE Ids(SubSeq(SourcePosts, 1,
                      IF Len(SourcePosts) < 6 THEN Len(SourcePosts) ELSE 6))

\* C26 amended: in the fallback branch a source post is selected if and
\* only if one of its tags, lower-cased, contains as a substring one of the
\* matching tags of the category: for 'writing' the words writing, writer,
\* blog, content, author, blogging, story and fiction, for any other label
\* the lower-cased label itself.  (When nothing is selected the first 6
\* source posts are returned.)
C26_FallbackSelectsBySubstring ==
  FallbackCategoryFetched =>
    Ids(last.ret.list) =
      IF SubstringTagPosts # <<>> THEN Ids(SubstringTagPosts)
      ELSE Ids(SubSeq(SourcePosts, 1,
                      IF Len(SourcePosts) < 6 THEN Len(SourcePosts) ELSE 6))

\* C26 witness: 'art' requested, and a post tagged 'party' and no other
\* post is returned.
C26_Witness ==
  /\ FallbackCategoryFetched
  /\ last.arg.category = Art
  /\ Len(last.ret.list) = 1
  /\ Len(SourcePosts) > 1
  /\ last.ret.list[1].tags = <<"p", "a", "r", "t", "y">>
  /\ ExactTagPosts = <<>>

\* C26, 'writing' requested, and posts tagged 'Writers', 'writing' and
\* 'history' are returned.
C26_WitnessWriting ==
  /\ FallbackCategoryFetched
  /\ last.arg.category = Writing
  /\ Len(last.ret.list) < Len(SourcePosts)
  /\ \E i, j, k \in 1..Len(last.ret.list) :
       /\ last.ret.list[i].tags = <<"W", "r", "i", "t", "e", "r", "s">>
       /\ last.ret.list[j].tags = <<"w", "r", "i", "t", "i", "n", "g">>
       /\ last.ret.list[k].tags = <<"h", "i", "s", "t", "o", "r", "y">>

----------------------------------------------------------------------------
(* HomePage with its external posts. *)

\* The ['external-posts', selectedCategory] query answers: its queryFn is
\* fetchExternalPosts(20) for 'all' and fetchExternalPostsByCategory
\* otherwise, and its data becomes externalPosts.
ExternalPostsArrive(response) ==
  LET data == IF selectedCategory = All
              THEN fetchExternalPosts(response, clock)
              ELSE fetchExternalPostsByCategory(selectedCategory, response,
                                                clock)
  IN /\ externalPosts' = data
     /\ last' = [op |-> "externalPosts",
                 arg |-> [category |-> selectedCategory,
                          response |-> response],
                 ret |-> [list |-> data]]
     /\ UNCHANGED <<storeVars, clock, inflight, log, internalPosts,
                    searchQuery, selectedCategory, sortBy, filteredPosts,
                    searches, searchCalls>>

\* What the queries of the page are answered with.
PageResponses ==
  { Answer(Source(n, 1, "last", "food")) : n \in {1, 6} }
    \cup FailedResponses

NextPage ==
  \/ \E list \in HomeLocalPostLists : InternalPostsArrive(list)
  \/ \E category \in HomeCategories : SetSelectedCategory(category)
  \/ \E response \in PageResponses : ExternalPostsArrive(response)
  \/ HandleSearch(<<"x">>)
  \/ \E search \in searches, response \in FailedResponses :
        SearchResolves(search, response)
  \/ Effect

SpecPage == Init /\ [][NextPage]_vars

\* The request was rejected, the status was not OK, or the body could not
\* be parsed.
RequestFailed(response) ==
  \/ response.fetch = "rejected"
  \/ response.ok = FALSE
  \/ response.json = "rejected"

C27_WitnessRejected ==
  /\ last.op = "externalPosts"
  /\ last.arg.category = All
  /\ last.arg.response.fetch = "rejected"
  /\ externalPosts = <<>>

\* C27, searchExternalPosts has met a body that does not parse.
C27_WitnessSearch ==
  /\ last.op = "searchResolved"
  /\ last.ret.response.json = "rejected"
  /\ last.ret.list = <<>>

\* C27, the effect has run while external posts are held: they are
\* displayed with the local ones.
C27_WitnessExternalDisplayed ==
  /\ EffectRan
  /\ externalPosts # <<>>
  /\ \E i \in 1..Len(filteredPosts) :
       \A j \in 1..Len(internalPosts) : filteredPosts[i] # internalPosts[j]

\* The number of tags of a list that are the category, whatever their case.
RECURSIVE CountCategoryTags(_, _)
CountCategoryTags(tags, category) ==
  IF tags = <<>> THEN 0
  ELSE (IF toLowerCase(tags[1]) = category THEN 1 ELSE 0)
         + CountCategoryTags(Tail(tags), category)

\* C28: every qualifying post returned for a known category has the
\* lower-cased requested category as the first element of its tags, and
\* that tag occurs exactly once in its tags (every other occurrence,
\* compared case-insensitively, is removed).
C28_CategoryTagFirstAndOnce ==
  KnownCategoryFetched =>
    \A i \in 1..Len(last.ret.list) :
      (\E j \in 1..Len(QualifyingPosts) :
         QualifyingPosts[j].id = last.ret.list[i].id) =>
        /\ TagList(last.ret.list[i])[1] = RequestedCategory
        /\ CountCategoryTags(TagList(last.ret.list[i]), RequestedCategory) = 1

----------------------------------------------------------------------------
(* Deleting and re-assigning posts through the handlers. *)

\* C29: deletePost removes the post and nothing else: users, other posts
\* and all comments are unchanged, so comments whose postId is the deleted
\* id stay in the store and getCommentsByPost(id) still returns them after
\* the post is gone.
C29_DeletePostLeavesComments ==
  [][(RouteStep("DELETE /api/posts/:id") /\ last'.ret.status = 204) =>
       /\ MapHas(posts, last'.arg)
       /\ posts' = MapDelete(posts, last'.arg)
       /\ users' = users
       /\ comments' = comments
       /\ SelectSeq(MapValues(comments'), LAMBDA comment :
            IF "postId" \in DOMAIN comment
            THEN comment["postId"] = last'.arg ELSE FALSE)
          = SelectSeq(MapValues(comments), LAMBDA comment :
              IF "postId" \in DOMAIN comment
              THEN comment["postId"] = last'.arg ELSE FALSE)
       /\ UNCHANGED <<currentUserId, currentPostId, currentCommentId>>
    ]_vars

\* C29 witness: a post with a comment has just been deleted; the comment is
\* still stored and getCommentsByPost of the deleted id returns it.
C29_Witness ==
  /\ last.op = "DELETE /api/posts/:id"
  /\ last.ret.status = 204
  /\ ~MapHas(posts, last.arg)
  /\ getCommentsByPost(last.arg) # <<>>
  /\ \A i \in 1..Len(getCommentsByPost(last.arg)) :
       getCommentsByPost(last.arg)[i]["postId"] = last.arg

\* The authorId of a stored post (0 when it has none).
AuthorIdOf(post) == IF "authorId" \in DOMAIN post THEN post["authorId"] ELSE 0

\* C30: an authorized PUT /api/posts/:id leaves the post's authorId
\* unchanged when the body carries no authorId, and otherwise stores the
\* body's authorId on the post (it is not forced to the caller as on
\* create), so after such an update the post's authorId can differ from its
\* creator's id and the author-or-admin check of later requests is made
\* against the new authorId.
C30_PutStoresBodyAuthorId ==
  [][/\ (RouteStep("PUT /api/posts/:id") /\ last'.ret.status = 200) =>
          \A caller \in Callers, body \in PutBodies \cup EmptyTextPutBodies :
            Route_UpdatePost(caller, last'.arg, body) =>
              /\ MapHas(posts', last'.arg)
              /\ AuthorIdOf(MapGet(posts', last'.arg)) =
                   IF "authorId" \in DOMAIN body THEN body["authorId"]
                   ELSE AuthorIdOf(MapGet(posts, last'.arg))
     /\ \A op \in {"PUT /api/posts/:id", "DELETE /api/posts/:id"} :
          (RouteStep(op) /\ last'.ret.caller # 0 /\ MapHas(posts, last'.arg)) =>
            ((last'.ret.status = 403) <=>
               /\ AuthorIdOf(MapGet(posts, last'.arg)) # last'.ret.caller
               /\ ~IsAdminId(last'.ret.caller))
    ]_vars

\* C30 witness: a user who is not an admin, so the author of the post, has
\* just PUT an authorId that is not their own, and the post carries it.
C30_Witness ==
  /\ last.op = "PUT /api/posts/:id"
  /\ last.ret.status = 200
  /\ last.ret.caller = 2
  /\ ~IsAdminId(2)
  /\ MapGet(posts, last.arg)["authorId"] = 1
  /\ last.ret.body["authorId"] = 1

\* C30, a PUT without authorId by the author has kept the authorId.
C30_WitnessKept ==
  /\ last.op = "PUT /api/posts/:id"
  /\ last.ret.status = 200
  /\ last.ret.caller = 2
  /\ MapGet(posts, last.arg)["title"] = "c"
  /\ MapGet(posts, last.arg)["authorId"] = 2

====
